---- MODULE Spec2Model ----
(***************************************************************************)
(* A model of the PitchGrid Mapper remap engine (pg_isomap.midi_handler),  *)
(* its playing-notes registry and the coordinator that installs the note   *)
(* mapping tables (pg_isomap.app).                                         *)
(*                                                                         *)
(* A MIDI message is a sequence of bytes.  A logical coordinate is a pair  *)
(* <<lx, ly>>; Python's None for a coordinate is the empty tuple.  A       *)
(* Python dict whose iteration order matters (_playing_notes) is a         *)
(* sequence of entries in insertion order; the mapping tables, whose order *)
(* is never observed, are functions.  A key of the reverse table is a      *)
(* tuple: <<channel, note>> for a Python pair and <<note>> for a bare int. *)
(***************************************************************************)
EXTENDS Integers, Sequences, FiniteSets, TLC

VARIABLES
    midi_out,                \* MIDIHandler.midi_out is open (not None)
    controller_port,         \* MIDIHandler.controller_port is open (not None)
    running,                 \* MIDIHandler._running
    message_queue,           \* MIDIHandler._message_queue
    note_mapping,            \* MIDIHandler.note_mapping            (F)
    reverse_mapping,         \* MIDIHandler.reverse_mapping         (R)
    use_channel_for_lookup,  \* MIDIHandler.use_channel_for_lookup
    playing_notes,           \* MIDIHandler._playing_notes          (P)
    waiting_for_ack,         \* MIDIHandler._waiting_for_ack
    ack_response_queue,      \* MIDIHandler._ack_response_queue
    current_controller,      \* PGIsomapApp.current_controller (a descriptor or NoController)
    current_layout_config,   \* PGIsomapApp.current_layout_config (its translation move_x)
    current_layout_calculator, \* PGIsomapApp.current_layout_calculator (its translation, or NoCalculator)
    tuning_mode,             \* TuningHandler.mode
    controller_out,          \* MIDIHandler.controller_out is open (not None)
    color_send_generation,   \* MIDIHandler._color_send_generation  (G)
    color_send_lock,         \* MIDIHandler._color_send_lock: 0 when free, else its holder
    canceller,               \* each caller of cancel_color_send: its position and its locals
    driver,                  \* the thread running send_raw_bytes: its position and its locals
    controller_sent,         \* the messages the last step sent to the controller, in order
    hot_thread,              \* the hot thread between the statements of one iteration
    updater,                 \* the thread running update_note_mapping between its assignments
    pads_down,               \* the pads held down on the controller
    swap_stopped,            \* the pads whose held note a layout swap stopped, until pressed again
    other_driver,            \* a second thread in send_raw_bytes, while it is not the one running
    osc_running,             \* OSCHandler._running
    osc_connected,           \* OSCHandler.connected
    last_ack_time,           \* OSCHandler._last_ack_time, in seconds
    clock,                   \* time.time(), in seconds
    notified,                \* the arguments of the calls of on_connection_changed so far
    call,                    \* the last call of a function of the configuration or the parser
    returned,                \* what that call returned
    queue_maxsize,           \* the maxsize of MIDIHandler._message_queue
    hot_alive,               \* the threads running MIDIHandler._processing_loop
    discovery_running,       \* PGIsomapApp._discovery_running
    alive,                   \* the OSC and discovery threads that have not returned
    stats,                   \* send_with_ack's stats of the stream being sent
    delays,                  \* the delay responses read in the stream being sent
    sent,                    \* the messages the last step sent to the virtual output, in order
    sounding,                \* <<channel, note>> pairs sounding downstream of the virtual output
    last_call                \* the operation, and the branch of it, that the last step took

vars == <<midi_out, controller_port, running, message_queue, note_mapping,
          reverse_mapping, use_channel_for_lookup, playing_notes,
          waiting_for_ack, ack_response_queue,
          current_controller, current_layout_config, current_layout_calculator,
          tuning_mode, controller_out, color_send_generation, color_send_lock,
          canceller, driver, controller_sent, hot_thread, updater,
          pads_down, swap_stopped, other_driver, osc_running, osc_connected, last_ack_time,
          clock, notified, call, returned, queue_maxsize, hot_alive, discovery_running,
          alive, stats, delays, sent, sounding, last_call>>

ackVars == <<waiting_for_ack, ack_response_queue>>

appVars == <<current_controller, current_layout_config, current_layout_calculator,
             tuning_mode>>

genVars == <<color_send_generation, color_send_lock, canceller>>

driverVars == <<driver, controller_sent>>

raceVars == <<hot_thread, updater>>

\* the controller's pads, as the environment of the bridge
padVars == <<pads_down, swap_stopped>>

\* the state of the threads beside the ones an action belongs to
otherVars == <<genVars, driverVars, raceVars>>

oscVars == <<osc_running, osc_connected, last_ack_time, clock, notified>>

callVars == <<call, returned>>

\* the OSC session, the calls of the pure functions, the second programming thread and
\* the capacity of the input queue
threadVars == <<hot_alive, discovery_running, alive>>
statVars == <<stats, delays>>
restVars == <<other_driver, oscVars, callVars, queue_maxsize, threadVars, statVars>>

(***************************************************************************)
(* Constants of the program and bounds of the model.                       *)
(***************************************************************************)
NOTE_ON == 144
NOTE_OFF == 128
PROGRAM_CHANGE == 192
SYSEX == 240

\* capacity of the input queue in the model (queue.Queue(maxsize=1000) in the code)
MaxQueue == 1

\* capacity of the ACK queue in the model (queue.Queue(maxsize=100) in the code)
MaxAckQueue == 1

Channels == {0, 1}
Pads == {<<0, 0>>, <<1, 0>>}
PadSeq == << <<0, 0>>, <<1, 0>> >>
ControllerNotes == {0, 1}
OutNotes == {60, 67}
NoCoord == <<>>
NoController == "None"
NoCalculator == <<>>

\* the messages the controller sends
InputMessages ==
    {<<NOTE_ON + c, n, 100>> : c \in Channels, n \in ControllerNotes}
    \cup {<<NOTE_ON + c, c, 0>> : c \in Channels}
    \cup {<<NOTE_OFF + c, n, 64>> : c \in Channels, n \in ControllerNotes}
    \cup {<<177, 1, 100>>, <<PROGRAM_CHANGE, 5>>}

\* the forward tables installed on the hot path: both pads mapped, and pad (0,0) alone,
\* moved to the other note
ForwardTables ==
    { (<<0, 0>> :> 60) @@ (<<1, 0>> :> 67),
      (<<0, 0>> :> 67) }

\* the forward tables of the layout swaps: every partial map from pads to output notes
SwapTables == UNION {[S -> OutNotes] : S \in SUBSET Pads}

\* the furthest translation of a layout in the model
MaxMove == 1

\* the most notes held at once through the UI in the coordinator's model
MaxPlaying == 1

(***************************************************************************)
(* Python dict operations on _playing_notes (insertion ordered).           *)
(***************************************************************************)
DictKeys(d) == {d[i].note : i \in 1..Len(d)}

DictGet(d, k) == d[CHOOSE i \in 1..Len(d) : d[i].note = k]

DictSet(d, k, coord, channel) ==
    LET e == [note |-> k, coord |-> coord, channel |-> channel] IN
    IF k \in DictKeys(d)
        THEN [i \in 1..Len(d) |-> IF d[i].note = k THEN e ELSE d[i]]
        ELSE Append(d, e)

DictPopTest(e, k) == e.note # k

DictPop(d, k) == SelectSeq(d, LAMBDA e : DictPopTest(e, k))

(***************************************************************************)
(* The virtual output as its receiver hears it: a Note-On with a nonzero   *)
(* velocity starts <<channel, note>>; a Note-Off, or a Note-On with        *)
(* velocity 0, ends it; every other message leaves the sounding notes      *)
(* alone.                                                                  *)
(***************************************************************************)
Status(message) == (message[1] \div 16) * 16

Channel(message) == message[1] % 16

Hear(s, message) ==
    IF Len(message) >= 3 /\ Status(message) = NOTE_ON /\ message[3] > 0
        THEN s \cup {<<Channel(message), message[2]>>}
    ELSE IF Len(message) >= 3 /\ Status(message) \in {NOTE_ON, NOTE_OFF}
        THEN s \ {<<Channel(message), message[2]>>}
    ELSE s

RECURSIVE HearAll(_, _)
HearAll(s, messages) ==
    IF messages = <<>> THEN s
    ELSE HearAll(Hear(s, Head(messages)), Tail(messages))

\* self.midi_out.send_message(m) for each m of messages, in order
SendMessages(messages) ==
    /\ sent' = messages
    /\ sounding' = HearAll(sounding, messages)

(***************************************************************************)
(* ControllerConfig.build_controller_note_mapping.  A descriptor is its    *)
(* pads in order with its noteAssign and channelAssign expressions.        *)
(***************************************************************************)
Descriptors ==
    { [device_name |-> "LinnStrument", note_assign |-> "x + 16*y", channel_assign |-> "None"],
      [device_name |-> "Lumatone",     note_assign |-> "x + 16*y", channel_assign |-> "x"] }

\* eval(expression, {"__builtins__": {}}, scope) raises an exception
Raises(expression) == expression = "1/0"

\* int(eval(expression, {"__builtins__": {}}, scope)) with x and y in scope
Eval(expression, x, y) ==
    CASE expression = "x" -> x
      [] expression = "y" -> y
      [] expression = "x + 16*y" -> x + 16 * y
      [] expression = "x + 127" -> x + 127
      [] expression = "x - 128" -> x - 128

\* None, the note of a pad without one, is -1
logical_coord_to_controller_note(desc, x, y) ==
    IF desc.note_assign = "None" \/ Raises(desc.note_assign) THEN -1
    ELSE Eval(desc.note_assign, x, y)

logical_coord_to_controller_channel(desc, x, y) ==
    IF desc.channel_assign = "None" \/ Raises(desc.channel_assign) THEN 0
    ELSE Eval(desc.channel_assign, x, y)

\* a builder that takes note 128 for a note of the controller
InRange_To128(controller_note) == controller_note >= 0 /\ controller_note <= 128

\* controller_note is not None and 0 <= controller_note <= 127
InRange(controller_note) == controller_note >= 0 /\ controller_note <= 127

RECURSIVE BuildFrom(_, _, _)
BuildFrom(desc, pads, acc) ==
    IF pads = <<>> THEN acc
    ELSE LET x == Head(pads)[1]
             y == Head(pads)[2]
             controller_note == logical_coord_to_controller_note(desc, x, y)
             controller_channel == logical_coord_to_controller_channel(desc, x, y)
             key == <<controller_channel, controller_note>>
         IN  BuildFrom(desc, Tail(pads),
                 IF InRange(controller_note)
                     THEN [k \in DOMAIN acc \cup {key} |->
                              IF k = key THEN Head(pads) ELSE acc[k]]
                     ELSE acc)

build_controller_note_mapping(desc) == BuildFrom(desc, PadSeq, <<>>)

\* the reverse tables a caller may install
ReverseTables == {build_controller_note_mapping(d) : d \in Descriptors}

(***************************************************************************)
(* MIDIHandler._processing_loop: what the hot thread does with one         *)
(* dequeued message.                                                       *)
(***************************************************************************)
\* a hot thread that takes every channel voice message of three bytes for a note
IsNoteMessage_AnyVoice(message) ==
    /\ Len(message) >= 3
    /\ message[1] >= 128 /\ message[1] < 240

\* len(message) >= 3 and (status == NOTE_ON or status == NOTE_OFF)
IsNoteMessage(message) ==
    /\ Len(message) >= 3
    /\ Status(message) \in {NOTE_ON, NOTE_OFF}

\* a hot thread that always looks up by the incoming channel
LookupChannel_Incoming(channel) == channel

\* lookup_channel = channel if self.use_channel_for_lookup else 0
LookupChannel(channel) == IF use_channel_for_lookup THEN channel ELSE 0

\* reverse_key = (lookup_channel, controller_note)
ReverseKey(message) == <<LookupChannel(Channel(message)), message[2]>>

\* a hot thread that takes a Note-On of velocity 0 for a Note-On
IsNoteOn_AnyVelocity(message) == Status(message) = NOTE_ON

\* is_note_on = (status == NOTE_ON and velocity > 0)
IsNoteOn(message) == Status(message) = NOTE_ON /\ message[3] > 0

\* the update of _playing_notes under _playing_notes_lock
TrackPlayingNote(p, is_note_on, mapped_note, logical_coord, channel) ==
    IF is_note_on
        THEN DictSet(p, mapped_note, logical_coord, channel)
        ELSE DictPop(p, mapped_note)

\* a hot thread that rebuilds the status byte without the channel bits
RemappedMessage_NoChannel(message, mapped_note) ==
    <<Status(message), mapped_note, message[3]>>

\* remapped_message = [message[0], mapped_note, velocity]
RemappedMessage(message, mapped_note) == <<message[1], mapped_note, message[3]>>

\* a hot thread that forwards the raw note of an unmapped pad
UnmappedOutput_Raw(message) == <<message>>

\* what is sent for a note whose pad is unmapped: nothing
UnmappedOutput(message) == <<>>

\* what is sent for a message that is not a note message: the message itself
PassThrough(message) == <<message>>

\* the branch taken, the messages sent and the registry after one message
ProcessMessage(message) ==
    IF ~midi_out
        THEN [branch |-> "no_output", out |-> <<>>, playing |-> playing_notes]
    ELSE IF IsNoteMessage(message)
        THEN IF ReverseKey(message) \in DOMAIN reverse_mapping
            THEN LET logical_coord == reverse_mapping[ReverseKey(message)] IN
                 IF logical_coord \in DOMAIN note_mapping
                     THEN LET mapped_note == note_mapping[logical_coord] IN
                          [branch |-> "remapped",
                           out |-> <<RemappedMessage(message, mapped_note)>>,
                           playing |-> TrackPlayingNote(playing_notes, IsNoteOn(message),
                                           mapped_note, logical_coord, Channel(message))]
                     ELSE [branch |-> "unmapped", out |-> UnmappedOutput(message),
                           playing |-> playing_notes]
            ELSE [branch |-> "no_logical_coord", out |-> UnmappedOutput(message),
                  playing |-> playing_notes]
    ELSE [branch |-> "pass_through", out |-> PassThrough(message),
          playing |-> playing_notes]

ProcessingLoop ==
    /\ running
    /\ message_queue # <<>>
    /\ LET r == ProcessMessage(Head(message_queue)) IN
        /\ message_queue' = Tail(message_queue)
        /\ playing_notes' = r.playing
        /\ SendMessages(r.out)
        /\ last_call' = r.branch
    /\ UNCHANGED <<midi_out, controller_port, running, note_mapping, reverse_mapping,
                   use_channel_for_lookup, ackVars, appVars>>
    /\ UNCHANGED <<controller_out, otherVars, padVars, restVars>>

\* a loop without the except clause: the exception of a send ends the thread
processing_loop_dies ==
    /\ running
    /\ message_queue # <<>>
    /\ ProcessMessage(Head(message_queue)).out # <<>>
    /\ message_queue' = Tail(message_queue)
    /\ playing_notes' = ProcessMessage(Head(message_queue)).playing
    /\ hot_alive' = hot_alive - 1
    /\ SendMessages(<<>>)
    /\ last_call' = "processing_error"
    /\ UNCHANGED <<midi_out, controller_port, running, note_mapping, reverse_mapping,
                   use_channel_for_lookup, ackVars, appVars>>
    /\ UNCHANGED <<controller_out, otherVars, padVars, other_driver, oscVars, callVars,
                   queue_maxsize, discovery_running, alive, statVars>>

\* an iteration of the loop in which self.midi_out.send_message raises, the port having
\* been closed: the registry has been updated before the send, the exception is logged
processing_loop_raises ==
    /\ running
    /\ message_queue # <<>>
    /\ LET r == ProcessMessage(Head(message_queue)) IN
        /\ r.out # <<>>
        /\ message_queue' = Tail(message_queue)
        /\ playing_notes' = r.playing
        /\ SendMessages(<<>>)
        /\ last_call' = "processing_error"
    /\ UNCHANGED <<midi_out, controller_port, running, note_mapping, reverse_mapping,
                   use_channel_for_lookup, ackVars, appVars>>
    /\ UNCHANGED <<controller_out, otherVars, padVars, restVars>>

(***************************************************************************)
(* MIDIHandler: ports, the input callback and the thread switch.           *)
(***************************************************************************)
initialize_virtual_port(ok) ==
    /\ ~midi_out
    /\ midi_out' = ok
    /\ SendMessages(<<>>)
    /\ last_call' = "initialize_virtual_port"
    /\ UNCHANGED <<controller_port, running, message_queue, note_mapping, reverse_mapping,
                   use_channel_for_lookup, playing_notes, ackVars, appVars>>
    /\ UNCHANGED <<controller_out, otherVars, padVars, restVars>>

\* MIDIHandler.start when the handler is not running: a thread for _processing_loop
start ==
    /\ ~running
    /\ running' = TRUE
    /\ hot_alive' = hot_alive + 1
    /\ SendMessages(<<>>)
    /\ last_call' = "start"
    /\ UNCHANGED <<midi_out, controller_port, message_queue, note_mapping, reverse_mapping,
                   use_channel_for_lookup, playing_notes, ackVars, appVars>>
    /\ UNCHANGED <<controller_out, otherVars, padVars, other_driver, oscVars, callVars,
                   queue_maxsize, discovery_running, alive, statVars>>

\* MIDIHandler.start when the handler is running: the warning, and no thread
start_while_running ==
    /\ running
    /\ SendMessages(<<>>)
    /\ last_call' = "start_ignored"
    /\ UNCHANGED <<midi_out, controller_port, running, message_queue, note_mapping,
                   reverse_mapping, use_channel_for_lookup, playing_notes, ackVars, appVars>>
    /\ UNCHANGED <<controller_out, otherVars, padVars, restVars>>

\* the thread the handler joins
HotThread == "MIDI-Processing"

\* self._thread.join(timeout=2.0) returned because the thread had ended
Joined(joined) == HotThread \in joined

\* MIDIHandler.stop: the flag cleared and the thread joined for at most 2 s; joined are
\* the threads that end within the time their join waits
stop(joined) ==
    /\ running' = FALSE
    /\ hot_alive' = IF Joined(joined) /\ hot_alive > 0 THEN hot_alive - 1 ELSE hot_alive
    /\ SendMessages(<<>>)
    /\ last_call' = "stop"
    /\ UNCHANGED <<midi_out, controller_port, message_queue, note_mapping, reverse_mapping,
                   use_channel_for_lookup, playing_notes, ackVars, appVars>>
    /\ UNCHANGED <<controller_out, otherVars, padVars, other_driver, oscVars, callVars,
                   queue_maxsize, discovery_running, alive, statVars>>

\* while self._running: a thread of _processing_loop finds the flag cleared and returns
loop_exit ==
    /\ ~running
    /\ hot_alive > 0
    /\ hot_alive' = hot_alive - 1
    /\ SendMessages(<<>>)
    /\ last_call' = "loop_exit"
    /\ UNCHANGED <<midi_out, controller_port, running, message_queue, note_mapping,
                   reverse_mapping, use_channel_for_lookup, playing_notes, ackVars, appVars>>
    /\ UNCHANGED <<controller_out, otherVars, padVars, other_driver, oscVars, callVars,
                   queue_maxsize, discovery_running, alive, statVars>>

\* the flag the loop of a thread tests: _discovery_running for _discovery_loop,
\* OSCHandler._running for _heartbeat_loop and _monitor_connection
StopFlag(t) == IF t = "Controller-Discovery" THEN discovery_running ELSE osc_running

\* a thread of the coordinator or of the OSC handler finds its flag cleared after its
\* sleep and returns
thread_exit(t) ==
    /\ t \in alive
    /\ ~StopFlag(t)
    /\ alive' = alive \ {t}
    /\ SendMessages(<<>>)
    /\ last_call' = "thread_exit"
    /\ UNCHANGED <<midi_out, controller_port, running, message_queue, note_mapping,
                   reverse_mapping, use_channel_for_lookup, playing_notes, ackVars, appVars>>
    /\ UNCHANGED <<controller_out, otherVars, padVars, other_driver, oscVars, callVars,
                   queue_maxsize, hot_alive, discovery_running, statVars>>

\* a stop of the coordinator that leaves _stop_discovery out
app_stop_KeepsDiscovery(joined) ==
    /\ running' = FALSE
    /\ osc_running' = FALSE
    /\ hot_alive' = IF Joined(joined) /\ hot_alive > 0 THEN hot_alive - 1 ELSE hot_alive
    /\ alive' = alive \ (joined \ {"Controller-Discovery"})
    /\ controller_port' = FALSE
    /\ controller_out' = FALSE
    /\ midi_out' = FALSE
    /\ SendMessages(<<>>)
    /\ last_call' = "app_stop"
    /\ UNCHANGED <<message_queue, note_mapping, reverse_mapping, use_channel_for_lookup,
                   playing_notes, ackVars, appVars, otherVars, padVars, other_driver,
                   osc_connected, last_ack_time, clock, notified, callVars, queue_maxsize,
                   discovery_running, statVars>>

\* PGIsomapApp.stop: _stop_discovery, MIDIHandler.shutdown (stop, disconnect_controller,
\* the virtual port closed) and OSCHandler.stop; every join waits for a bounded time, and
\* joined are the threads that end within it
app_stop(joined) ==
    /\ discovery_running' = FALSE
    /\ running' = FALSE
    /\ osc_running' = FALSE
    /\ hot_alive' = IF Joined(joined) /\ hot_alive > 0 THEN hot_alive - 1 ELSE hot_alive
    /\ alive' = alive \ joined
    /\ controller_port' = FALSE
    /\ controller_out' = FALSE
    /\ midi_out' = FALSE
    /\ SendMessages(<<>>)
    /\ last_call' = "app_stop"
    /\ UNCHANGED <<message_queue, note_mapping, reverse_mapping, use_channel_for_lookup,
                   playing_notes, ackVars, appVars, otherVars, padVars, other_driver,
                   osc_connected, last_ack_time, clock, notified, callVars, queue_maxsize,
                   statVars>>

\* matched: find_best_matching_port found the port the controller sends on;
\* matched_out: it found the port the controller listens on
connect_to_controller(matched, matched_out) ==
    /\ controller_port' = matched
    /\ controller_out' = IF matched THEN matched_out
                         ELSE IF controller_port THEN FALSE ELSE controller_out
    /\ SendMessages(<<>>)
    /\ last_call' = "connect_to_controller"
    /\ UNCHANGED <<midi_out, running, message_queue, note_mapping, reverse_mapping,
                   use_channel_for_lookup, playing_notes, ackVars, appVars>>
    /\ UNCHANGED <<otherVars, padVars, restVars>>

disconnect_controller ==
    /\ controller_port' = FALSE
    /\ controller_out' = FALSE
    /\ SendMessages(<<>>)
    /\ last_call' = "disconnect_controller"
    /\ UNCHANGED <<midi_out, running, message_queue, note_mapping, reverse_mapping,
                   use_channel_for_lookup, playing_notes, ackVars, appVars>>
    /\ UNCHANGED <<otherVars, padVars, restVars>>

\* a queue that makes room for the new message by dropping the oldest
PutNowait_DropOldest(q, message) ==
    IF Len(q) < queue_maxsize THEN Append(q, message) ELSE Append(Tail(q), message)

\* self._message_queue.put_nowait: a full queue drops the new message
PutNowait(q, message) == IF Len(q) < queue_maxsize THEN Append(q, message) ELSE q

\* self._ack_response_queue.put_nowait (maxsize=100): queue.Full falls through
AckQueueFull == Len(ack_response_queue) >= MaxAckQueue

MidiCallback(message) ==
    /\ controller_port
    /\ IF message[1] = SYSEX /\ waiting_for_ack /\ ~AckQueueFull
        THEN /\ ack_response_queue' = Append(ack_response_queue, message)
             /\ UNCHANGED message_queue
        ELSE /\ message_queue' = PutNowait(message_queue, message)
             /\ UNCHANGED ack_response_queue
    /\ SendMessages(<<>>)
    /\ last_call' = "midi_callback"
    /\ UNCHANGED <<midi_out, controller_port, running, note_mapping, reverse_mapping,
                   use_channel_for_lookup, playing_notes, waiting_for_ack, appVars>>
    /\ UNCHANGED <<controller_out, otherVars>>

\* the callback for a message whose origin on the controller the model does not follow
midi_callback(message) ==
    /\ MidiCallback(message)
    /\ UNCHANGED <<padVars, restVars>>

\* the callback, called by the port's thread with a message the controller has sent
controller_input(message) ==
    /\ MidiCallback(message)
    /\ call' = [op |-> "_midi_callback", message |-> message]
    /\ UNCHANGED <<padVars, other_driver, oscVars, returned, queue_maxsize, threadVars,
                   statVars>>

update_note_mapping(mapping, reverse, use_channel) ==
    /\ note_mapping' = mapping
    /\ reverse_mapping' = reverse
    /\ use_channel_for_lookup' = use_channel
    /\ SendMessages(<<>>)
    /\ last_call' = "update_note_mapping"
    /\ UNCHANGED <<midi_out, controller_port, running, message_queue, playing_notes, ackVars, appVars>>
    /\ UNCHANGED <<controller_out, otherVars, padVars, restVars>>

(***************************************************************************)
(* MIDIHandler: notes sent on behalf of the UI, and the bulk note-offs.    *)
(***************************************************************************)
ValidNote(note, velocity, channel) ==
    /\ 0 <= note /\ note <= 127
    /\ 0 <= velocity /\ velocity <= 127
    /\ 0 <= channel /\ channel <= 15

send_note_on(note, velocity, channel, logical_coord) ==
    /\ IF midi_out /\ ValidNote(note, velocity, channel)
        THEN /\ SendMessages(<< <<NOTE_ON + channel, note, velocity>> >>)
             /\ playing_notes' = IF logical_coord # NoCoord
                                     THEN DictSet(playing_notes, note, logical_coord, channel)
                                     ELSE playing_notes
        ELSE /\ SendMessages(<<>>)
             /\ UNCHANGED playing_notes
    /\ last_call' = "send_note_on"
    /\ UNCHANGED <<midi_out, controller_port, running, message_queue, note_mapping,
                   reverse_mapping, use_channel_for_lookup, ackVars, appVars>>
    /\ UNCHANGED <<controller_out, otherVars, padVars, restVars>>

send_note_off(note, channel) ==
    /\ IF midi_out /\ ValidNote(note, 0, channel)
        THEN /\ SendMessages(<< <<NOTE_OFF + channel, note, 0>> >>)
             /\ playing_notes' = DictPop(playing_notes, note)
        ELSE /\ SendMessages(<<>>)
             /\ UNCHANGED playing_notes
    /\ last_call' = "send_note_off"
    /\ UNCHANGED <<midi_out, controller_port, running, message_queue, note_mapping,
                   reverse_mapping, use_channel_for_lookup, ackVars, appVars>>
    /\ UNCHANGED <<controller_out, otherVars, padVars, restVars>>

\* note-offs sent on channel 0 whatever the channel of the Note-On
NoteOffs_ChannelZero(notes_to_stop) ==
    [i \in 1..Len(notes_to_stop) |-> <<NOTE_OFF, notes_to_stop[i].note, 0>>]

\* message = [NOTE_OFF | channel, note, 0] for each entry of notes_to_stop, in order
NoteOffs(notes_to_stop) ==
    [i \in 1..Len(notes_to_stop) |->
        <<NOTE_OFF + notes_to_stop[i].channel, notes_to_stop[i].note, 0>>]

stop_all_playing_notes ==
    /\ IF midi_out
        THEN /\ playing_notes' = <<>>
             /\ SendMessages(NoteOffs(playing_notes))
        ELSE /\ SendMessages(<<>>)
             /\ UNCHANGED playing_notes
    /\ last_call' = "stop_all_playing_notes"
    /\ UNCHANGED <<midi_out, controller_port, running, message_queue, note_mapping,
                   reverse_mapping, use_channel_for_lookup, ackVars, appVars>>
    /\ UNCHANGED <<controller_out, otherVars, padVars, restVars>>

\* new_note = new_mapping.get(logical_coord); new_note is None or new_note != old_note
MappingChanged(new_mapping, e) ==
    \/ e.coord \notin DOMAIN new_mapping
    \/ new_mapping[e.coord] # e.note

NotesToStop(p, new_mapping) == SelectSeq(p, LAMBDA e : MappingChanged(new_mapping, e))

\* a diff that leaves the registry as it was
NotesToKeep_All(p, new_mapping) == p

NotesToKeep(p, new_mapping) == SelectSeq(p, LAMBDA e : ~MappingChanged(new_mapping, e))

\* the registry and the note-offs after stop_notes_with_changed_mapping(new_mapping)
StopChanged(new_mapping) ==
    IF midi_out
        THEN /\ playing_notes' = NotesToKeep(playing_notes, new_mapping)
             /\ SendMessages(NoteOffs(NotesToStop(playing_notes, new_mapping)))
        ELSE /\ SendMessages(<<>>)
             /\ UNCHANGED playing_notes

stop_notes_with_changed_mapping(new_mapping) ==
    /\ StopChanged(new_mapping)
    /\ last_call' = "stop_notes_with_changed_mapping"
    /\ UNCHANGED <<midi_out, controller_port, running, message_queue, note_mapping,
                   reverse_mapping, use_channel_for_lookup, ackVars, appVars>>
    /\ UNCHANGED <<controller_out, otherVars, padVars, restVars>>

(***************************************************************************)
(* The layout swap of the remap engine: the diff of the playing notes      *)
(* against the new forward table, then the installation of the tables.     *)
(* A swap that installs again the tables the previous swap installed is    *)
(* recorded as "reinstall".                                                *)
(***************************************************************************)
InstallLayout(mapping, reverse, use_channel) ==
    /\ StopChanged(mapping)
    /\ note_mapping' = mapping
    /\ reverse_mapping' = reverse
    /\ use_channel_for_lookup' = use_channel
    /\ last_call' = IF /\ last_call \in {"install_layout", "reinstall"}
                       /\ mapping = note_mapping
                       /\ reverse = reverse_mapping
                       /\ use_channel = use_channel_for_lookup
                        THEN "reinstall" ELSE "install_layout"
    /\ UNCHANGED <<midi_out, controller_port, running, message_queue, ackVars, appVars>>
    /\ UNCHANGED <<controller_out, otherVars>>

install_layout(mapping, reverse, use_channel) ==
    /\ InstallLayout(mapping, reverse, use_channel)
    /\ UNCHANGED <<padVars, restVars>>

(***************************************************************************)
(* PGIsomapApp, the coordinator.  The layout calculator (pg_isomap.layouts)*)
(* is the isomorphic one: a calculator is the translation it has           *)
(* accumulated, <<move_x>>; the tuning is the MOS of 12-EDO, (a, b) =      *)
(* (12, 7), with the mode the last tuning frame set.                       *)
(***************************************************************************)
DeviceNames == {"Computer Keyboard", "LinnStrument"}

\* the threads OSCHandler.start and PGIsomapApp._start_discovery start, by name
Threads == {"OSC-Heartbeat", "OSC-Monitor", "Controller-Discovery"}

\* IsomorphicLayout.calculate_mapping: d = nx*b - ny*a + mode, note = 60 + d,
\* pads whose note falls outside 0..127 omitted
ScaleDegree(coord, move_x, mode) == (coord[1] + move_x) * 7 - coord[2] * 12 + mode

calculate_mapping(logical_coords, move_x, mode) ==
    LET mapped == {c \in logical_coords :
                      /\ 60 + ScaleDegree(c, move_x, mode) >= 0
                      /\ 60 + ScaleDegree(c, move_x, mode) <= 127}
    IN  [c \in mapped |-> 60 + ScaleDegree(c, move_x, mode)]

\* note = logical_x + logical_y * 16, or None (here -1) when outside 0..127
logical_to_controller_note(logical_x, logical_y) ==
    LET note == logical_x + logical_y * 16 IN
    IF 0 <= note /\ note <= 127 THEN note ELSE -1

\* reverse_mapping[controller_note] = (logical_x, logical_y), pad by pad: the key is a bare int
RECURSIVE AppReverseFrom(_, _)
AppReverseFrom(pads, acc) ==
    IF pads = <<>> THEN acc
    ELSE LET controller_note == logical_to_controller_note(Head(pads)[1], Head(pads)[2])
             key == <<controller_note>>
         IN  AppReverseFrom(Tail(pads),
                 IF controller_note # -1
                     THEN [k \in DOMAIN acc \cup {key} |->
                              IF k = key THEN Head(pads) ELSE acc[k]]
                     ELSE acc)

\* _recalculate_layout, run with the coordinator's state as the caller has just set it
recalculate_layout(controller, config, calculator, mode) ==
    IF controller = NoController
        THEN /\ current_layout_calculator' = calculator
             /\ UNCHANGED <<note_mapping, reverse_mapping, use_channel_for_lookup>>
        ELSE LET calc == IF calculator = NoCalculator THEN <<config>> ELSE calculator IN
             /\ current_layout_calculator' = calc
             /\ note_mapping' = calculate_mapping(Pads, calc[1], mode)
             /\ reverse_mapping' = AppReverseFrom(PadSeq, <<>>)
             /\ use_channel_for_lookup' = FALSE

\* PGIsomapApp.start, called once on the coordinator as constructed: the keyboard
\* descriptor if there is one, then the virtual port, the hot thread and the OSC session
app_start(keyboard, ok) ==
    /\ last_call = "init"
    /\ current_controller' = IF keyboard THEN "Computer Keyboard" ELSE current_controller
    /\ recalculate_layout(current_controller', current_layout_config,
                          current_layout_calculator, tuning_mode)
    /\ midi_out' = ok
    /\ running' = ok
    /\ hot_alive' = IF ok THEN hot_alive + 1 ELSE hot_alive
    /\ osc_running' = (ok \/ osc_running)
    /\ discovery_running' = (ok \/ discovery_running)
    /\ alive' = IF ok THEN alive \cup Threads ELSE alive
    /\ SendMessages(<<>>)
    /\ last_call' = "app_start"
    /\ UNCHANGED <<controller_port, message_queue, playing_notes, ackVars,
                   current_layout_config, tuning_mode>>
    /\ UNCHANGED <<controller_out, otherVars, padVars, other_driver, callVars, queue_maxsize,
                   statVars,
                   osc_connected, last_ack_time, clock, notified>>

\* PGIsomapApp.connect_to_controller: an unknown device changes nothing; a device whose
\* port is not found leaves the handler disconnected
app_connect_to_controller(device_name, matched) ==
    /\ IF device_name \notin DeviceNames
        THEN UNCHANGED <<controller_port, controller_out, current_controller,
                         current_layout_calculator,
                         note_mapping, reverse_mapping, use_channel_for_lookup>>
        ELSE /\ controller_port' = matched
             /\ controller_out' = IF matched \/ controller_port THEN matched ELSE controller_out
             /\ IF matched
                 THEN /\ current_controller' = device_name
                      /\ recalculate_layout(device_name, current_layout_config,
                                            NoCalculator, tuning_mode)
                 ELSE UNCHANGED <<current_controller, current_layout_calculator,
                                  note_mapping, reverse_mapping, use_channel_for_lookup>>
    /\ SendMessages(<<>>)
    /\ last_call' = "app_connect_to_controller"
    /\ UNCHANGED <<midi_out, running, message_queue, playing_notes, ackVars,
                   current_layout_config, tuning_mode>>
    /\ UNCHANGED <<otherVars, padVars, restVars>>

\* PGIsomapApp.disconnect_controller
app_disconnect_controller ==
    /\ controller_port' = FALSE
    /\ controller_out' = FALSE
    /\ current_controller' = NoController
    /\ SendMessages(<<>>)
    /\ last_call' = "app_disconnect_controller"
    /\ UNCHANGED <<midi_out, running, message_queue, note_mapping, reverse_mapping,
                   use_channel_for_lookup, playing_notes, ackVars,
                   current_layout_config, current_layout_calculator, tuning_mode>>
    /\ UNCHANGED <<otherVars, padVars, restVars>>

\* PGIsomapApp.update_layout_config: the calculator of an unchanged layout type is kept
update_layout_config(config) ==
    /\ current_layout_config' = config
    /\ recalculate_layout(current_controller, config, current_layout_calculator, tuning_mode)
    /\ SendMessages(<<>>)
    /\ last_call' = "update_layout_config"
    /\ UNCHANGED <<midi_out, controller_port, running, message_queue, playing_notes,
                   ackVars, current_controller, tuning_mode>>
    /\ UNCHANGED <<controller_out, otherVars, padVars, restVars>>

\* PGIsomapApp.apply_transformation('shift_right'): the calculator's translation advances
apply_transformation ==
    /\ current_layout_calculator # NoCalculator
    /\ current_layout_calculator[1] < MaxMove
    /\ recalculate_layout(current_controller, current_layout_config,
                          <<current_layout_calculator[1] + 1>>, tuning_mode)
    /\ SendMessages(<<>>)
    /\ last_call' = "apply_transformation"
    /\ UNCHANGED <<midi_out, controller_port, running, message_queue, playing_notes,
                   ackVars, current_controller, current_layout_config, tuning_mode>>
    /\ UNCHANGED <<controller_out, otherVars, padVars, restVars>>

\* PGIsomapApp._handle_scale_update: a frame of at least seven arguments sets the tuning
ScaleUpdate(nargs, mode) ==
    /\ IF nargs >= 7
        THEN /\ tuning_mode' = mode
             /\ recalculate_layout(current_controller, current_layout_config,
                                   current_layout_calculator, mode)
        ELSE UNCHANGED <<tuning_mode, current_layout_calculator, note_mapping,
                         reverse_mapping, use_channel_for_lookup>>
    /\ UNCHANGED <<midi_out, controller_port, running, message_queue, playing_notes,
                   ackVars, current_controller, current_layout_config>>
    /\ UNCHANGED <<controller_out, otherVars, padVars>>

\* _handle_scale_update with seven arguments of which one is no number: update_tuning
\* raises at its first conversion, and the exception is logged
scale_update_raises ==
    /\ SendMessages(<<>>)
    /\ last_call' = "handle_scale_update_error"
    /\ UNCHANGED <<midi_out, controller_port, running, message_queue, note_mapping,
                   reverse_mapping, use_channel_for_lookup, playing_notes, ackVars, appVars>>
    /\ UNCHANGED <<controller_out, otherVars, padVars, restVars>>

\* _handle_scale_update called with a frame whose origin the model does not follow
handle_scale_update(nargs, mode) ==
    /\ ScaleUpdate(nargs, mode)
    /\ SendMessages(<<>>)
    /\ last_call' = "handle_scale_update"
    /\ UNCHANGED restVars

(***************************************************************************)
(* OSCHandler: the session with the tuning editor.  Time is in seconds.    *)
(* The dispatcher calls the handler mapped to the address of a message;    *)
(* the monitor thread evaluates the presence of the peer.                  *)
(***************************************************************************)
\* self._connection_timeout = 2.0
connection_timeout == 2

\* the latest time the model's clock reaches
MaxClock == 8

\* disp.map(address, handler)
Handlers ==
    ("/pitchgrid/plugin/tuning" :> "_handle_tuning")
    @@ ("/pitchgrid/heartbeat/ack" :> "_handle_heartbeat_ack")
    @@ ("/pitchgrid/scale" :> "_handle_scale_update")
    @@ ("/pitchgrid/notes" :> "_handle_note_mapping")
    @@ ("/pitchgrid/playing" :> "_handle_playing_notes")

\* disp.set_default_handler(self._default_handler)
Handler(address) ==
    IF address \in DOMAIN Handlers THEN Handlers[address] ELSE "_default_handler"

\* handlers of which the heartbeat acknowledgment alone refreshes the timestamp
RefreshesPresence_AckOnly(handler) == handler = "_handle_heartbeat_ack"

\* the handlers that set self._last_ack_time = time.time()
RefreshesPresence(handler) ==
    handler \in {"_handle_tuning", "_handle_heartbeat_ack", "_handle_scale_update",
                 "_handle_note_mapping", "_handle_playing_notes"}

\* the handlers that call self.on_scale_update, which is the coordinator's
\* _handle_scale_update
CallsOnScaleUpdate(handler) == handler \in {"_handle_tuning", "_handle_scale_update"}

\* a monitor that takes the peer for gone when the timeout has just been reached
TimedOut_AtTimeout(time_since_ack) == time_since_ack >= connection_timeout

\* time_since_ack > self._connection_timeout
TimedOut(time_since_ack) == time_since_ack > connection_timeout

\* a second passes
tick ==
    /\ clock < MaxClock
    /\ clock' = clock + 1
    /\ SendMessages(<<>>)
    /\ last_call' = "tick"
    /\ UNCHANGED <<midi_out, controller_port, controller_out, running, message_queue,
                   note_mapping, reverse_mapping, use_channel_for_lookup, playing_notes,
                   ackVars, appVars, otherVars, padVars, other_driver, callVars,
                   queue_maxsize, threadVars, statVars, osc_running, osc_connected,
                   last_ack_time,
                   notified>>

\* one evaluation of _monitor_connection, with the call of on_connection_changed
monitor_connection ==
    /\ osc_running
    /\ LET time_since_ack == clock - last_ack_time
           was_connected == osc_connected
           connected == IF TimedOut(time_since_ack) THEN FALSE
                        ELSE IF ~osc_connected THEN TRUE
                        ELSE osc_connected
       IN  /\ osc_connected' = connected
           /\ notified' = IF was_connected # connected THEN Append(notified, connected)
                                                       ELSE notified
    /\ SendMessages(<<>>)
    /\ last_call' = "monitor_connection"
    /\ UNCHANGED <<midi_out, controller_port, controller_out, running, message_queue,
                   note_mapping, reverse_mapping, use_channel_for_lookup, playing_notes,
                   ackVars, appVars, otherVars, padVars, other_driver, callVars,
                   queue_maxsize, threadVars, statVars, osc_running, last_ack_time,
                   clock>>

\* a message of nargs numeric arguments, the second of them mode, arrives on an address
osc_message(address, nargs, mode) ==
    /\ osc_running
    /\ call' = [op |-> address, nargs |-> nargs, mode |-> mode]
    /\ last_ack_time' = IF RefreshesPresence(Handler(address)) THEN clock ELSE last_ack_time
    /\ IF CallsOnScaleUpdate(Handler(address))
        THEN ScaleUpdate(nargs, mode)
        ELSE UNCHANGED <<midi_out, controller_port, controller_out, running, message_queue,
                         note_mapping, reverse_mapping, use_channel_for_lookup,
                         playing_notes, ackVars, appVars, otherVars, padVars>>
    /\ SendMessages(<<>>)
    /\ last_call' = Handler(address)
    /\ UNCHANGED <<other_driver, returned, queue_maxsize, threadVars, statVars, osc_running,
                   osc_connected, clock,
                   notified>>

(***************************************************************************)
(* MIDIHandler._parse_midi_messages: a byte stream cut into messages.      *)
(* Python's slice data[i:end] stops at the end of the data.                *)
(***************************************************************************)
Slice(data, first, last) ==
    SubSeq(data, first, IF last > Len(data) THEN Len(data) ELSE last)

\* the index after the SysEx that starts at i: past its 0xF7, or past the data
RECURSIVE SysExEnd(_, _)
SysExEnd(data, end) ==
    IF end <= Len(data) /\ data[end] # 247 THEN SysExEnd(data, end + 1)
    ELSE IF end <= Len(data) THEN end + 1
    ELSE end

\* a parser that takes every channel message for one of three bytes
MessageLength_AllThree(status) ==
    IF status >= 128 /\ status <= 239 THEN 3
    ELSE IF status >= 241 /\ status <= 246
        THEN IF status \in {241, 243} THEN 2
             ELSE IF status = 242 THEN 3
             ELSE 1
    ELSE IF status >= 248 THEN 1
    ELSE 0

\* the length of the message a status byte starts, 0 for a byte that is skipped
MessageLength(status) ==
    IF status >= 128 /\ status <= 239
        THEN IF (status \div 16) * 16 \in {PROGRAM_CHANGE, 208} THEN 2 ELSE 3
    ELSE IF status >= 241 /\ status <= 246
        THEN IF status \in {241, 243} THEN 2
             ELSE IF status = 242 THEN 3
             ELSE 1
    ELSE IF status >= 248 THEN 1
    ELSE 0

RECURSIVE ParseFrom(_, _, _)
ParseFrom(data, i, messages) ==
    IF i > Len(data) THEN messages
    ELSE IF data[i] = SYSEX
        THEN ParseFrom(data, SysExEnd(data, i + 1),
                       Append(messages, Slice(data, i, SysExEnd(data, i + 1) - 1)))
    ELSE IF MessageLength(data[i]) > 0
        THEN ParseFrom(data, i + MessageLength(data[i]),
                       Append(messages, Slice(data, i, i + MessageLength(data[i]) - 1)))
    ELSE ParseFrom(data, i + 1, messages)

parse_midi_messages(data) == ParseFrom(data, 1, <<>>)

\* the bytes of a list of messages, in order
RECURSIVE Emit(_)
Emit(messages) ==
    IF messages = <<>> THEN <<>> ELSE Head(messages) \o Emit(Tail(messages))

\* what a call of a function of the configuration or the parser leaves alone
callFrame == <<midi_out, controller_port, controller_out, running, message_queue,
               note_mapping, reverse_mapping, use_channel_for_lookup, playing_notes,
               ackVars, appVars, otherVars, padVars, other_driver, oscVars, queue_maxsize,
               threadVars, statVars>>

\* self._parse_midi_messages(data), data being the bytes of the messages given
parse_call(messages) ==
    /\ call' = [op |-> "_parse_midi_messages", data |-> Emit(messages),
                messages |-> messages]
    /\ returned' = parse_midi_messages(Emit(messages))
    /\ SendMessages(<<>>)
    /\ last_call' = "_parse_midi_messages"
    /\ UNCHANGED callFrame

(***************************************************************************)
(* ACKMessagingConfig and the reading of a response in                     *)
(* _send_single_with_ack.  response_position counts from 0, as in Python.  *)
(***************************************************************************)
\* a configuration that places the status byte one position further on
AckConfig_StatusAtSix ==
    [timeout_ms |-> 2000,
     response_position |-> 6,
     response_types |-> << [name |-> "NACK", value |-> 0, action |-> "abort"],
                           [name |-> "ACK",  value |-> 1, action |-> "next"],
                           [name |-> "BUSY", value |-> 2, action |-> "delay(50)"] >>]

AckConfig ==
    [timeout_ms |-> 2000,
     response_position |-> 5,
     response_types |-> << [name |-> "NACK", value |-> 0, action |-> "abort"],
                           [name |-> "ACK",  value |-> 1, action |-> "next"],
                           [name |-> "BUSY", value |-> 2, action |-> "delay(50)"] >>]

\* the response table read as mapping every status value to 'next'
get_action_for_value_AlwaysNext(ack_config, value) == "next"

\* ACKMessagingConfig.get_action_for_value: the action of the first entry with the value
get_action_for_value(ack_config, value) ==
    LET types == ack_config.response_types
        hits == {k \in 1..Len(types) : types[k].value = value}
    IN  IF hits = {} THEN "None"
        ELSE types[CHOOSE k \in hits : \A j \in hits : k <= j].action

\* the actions that re.match(r'delay\((\d+)\)', action) accepts
DelayActions == {"delay(50)"}

\* a reading that takes a response too short for the status position for an ACK
ResponseOutcome_ShortIsAck(ack_config, response) ==
    IF Len(response) > ack_config.response_position
        THEN LET action == get_action_for_value(ack_config,
                               response[ack_config.response_position + 1])
             IN  IF action = "next" THEN "ack"
                 ELSE IF action = "abort" THEN "nack"
                 ELSE IF action \in DelayActions THEN "busy"
                 ELSE "error"
        ELSE "ack"

\* the outcome of one response: "ack" (next), "nack" (abort), "busy" (delay and retry),
\* "error" (status unknown, action unknown, or response too short)
ResponseOutcome(ack_config, response) ==
    IF Len(response) > ack_config.response_position
        THEN LET action == get_action_for_value(ack_config,
                               response[ack_config.response_position + 1])
             IN  IF action = "None" THEN "error"
                 ELSE IF action = "next" THEN "ack"
                 ELSE IF action = "abort" THEN "nack"
                 ELSE IF action \in DelayActions THEN "busy"
                 ELSE "error"
        ELSE "error"

(***************************************************************************)
(* The threads at rest.                                                    *)
(***************************************************************************)
Callers == {1, 2}

CallerIdle == [pc |-> "idle", loaded |-> 0, result |-> 0]

DriverIdle == [pc |-> "idle"]

HotIdle == [pc |-> "get"]

UpdaterIdle == [pc |-> "idle"]

\* stats = {"sent": 0, "ack": 0, "nack": 0, "busy": 0, "timeout": 0, "error": 0}
ZeroStats == [sent |-> 0, ack |-> 0, nack |-> 0, busy |-> 0, timeout |-> 0, error |-> 0]

\* no function of the configuration or the parser has been called
NoCall == [op |-> "None"]

\* time.time() when the handler is constructed: later than the timeout after the epoch
StartTime == connection_timeout + 1

(***************************************************************************)
(* MIDIHandler._processing_loop and update_note_mapping statement by       *)
(* statement: neither takes a lock around the tables, so the hot thread's  *)
(* reads of use_channel_for_lookup, reverse_mapping and note_mapping and   *)
(* the updater's three assignments interleave freely.  The hot thread      *)
(* keeps what each statement read: the flag, the table objects and the     *)
(* values looked up in them.                                               *)
(***************************************************************************)
hotFrame == <<midi_out, controller_port, controller_out, running, note_mapping,
              reverse_mapping, use_channel_for_lookup, ackVars, appVars, genVars,
              driverVars, updater, padVars, restVars>>

\* message, timestamp = self._message_queue.get(); the tests of midi_out and of the status
hot_get ==
    /\ running
    /\ hot_thread.pc = "get"
    /\ message_queue # <<>>
    /\ message_queue' = Tail(message_queue)
    /\ LET message == Head(message_queue) IN
       IF ~midi_out
           THEN /\ hot_thread' = HotIdle
                /\ SendMessages(<<>>)
                /\ last_call' = "no_output"
       ELSE IF IsNoteMessage(message)
           THEN /\ hot_thread' = [pc |-> "lookup_channel", message |-> message]
                /\ SendMessages(<<>>)
                /\ last_call' = "hot_get"
       ELSE /\ hot_thread' = HotIdle
            /\ SendMessages(PassThrough(message))
            /\ last_call' = "pass_through"
    /\ UNCHANGED <<playing_notes, hotFrame>>

\* lookup_channel = channel if self.use_channel_for_lookup else 0; reverse_key = (...)
hot_lookup_channel ==
    /\ hot_thread.pc = "lookup_channel"
    /\ hot_thread' = [pc |-> "test_reverse", message |-> hot_thread.message,
                      use_channel |-> use_channel_for_lookup,
                      key |-> ReverseKey(hot_thread.message)]
    /\ SendMessages(<<>>)
    /\ last_call' = "hot_lookup_channel"
    /\ UNCHANGED <<message_queue, playing_notes, hotFrame>>

\* if reverse_key in self.reverse_mapping
hot_test_reverse ==
    /\ hot_thread.pc = "test_reverse"
    /\ IF hot_thread.key \in DOMAIN reverse_mapping
        THEN /\ hot_thread' = [hot_thread EXCEPT !.pc = "get_reverse"]
             /\ last_call' = "hot_test_reverse"
        ELSE /\ hot_thread' = HotIdle
             /\ last_call' = "no_logical_coord"
    /\ SendMessages(UnmappedOutput(hot_thread.message))
    /\ UNCHANGED <<message_queue, playing_notes, hotFrame>>

\* logical_coord = self.reverse_mapping[reverse_key]: a KeyError when the table read now
\* lacks the key; the loop's except clause logs it and the message is lost
hot_get_reverse ==
    /\ hot_thread.pc = "get_reverse"
    /\ IF hot_thread.key \in DOMAIN reverse_mapping
        THEN /\ hot_thread' = [pc |-> "test_forward", message |-> hot_thread.message,
                               use_channel |-> hot_thread.use_channel,
                               key |-> hot_thread.key,
                               reverse |-> reverse_mapping,
                               logical_coord |-> reverse_mapping[hot_thread.key]]
             /\ last_call' = "hot_get_reverse"
        ELSE /\ hot_thread' = HotIdle
             /\ last_call' = "error"
    /\ SendMessages(<<>>)
    /\ UNCHANGED <<message_queue, playing_notes, hotFrame>>

\* if logical_coord in self.note_mapping
hot_test_forward ==
    /\ hot_thread.pc = "test_forward"
    /\ IF hot_thread.logical_coord \in DOMAIN note_mapping
        THEN /\ hot_thread' = [hot_thread EXCEPT !.pc = "get_forward"]
             /\ last_call' = "hot_test_forward"
        ELSE /\ hot_thread' = HotIdle
             /\ last_call' = "unmapped"
    /\ SendMessages(UnmappedOutput(hot_thread.message))
    /\ UNCHANGED <<message_queue, playing_notes, hotFrame>>

\* mapped_note = self.note_mapping[logical_coord]
hot_get_forward ==
    /\ hot_thread.pc = "get_forward"
    /\ IF hot_thread.logical_coord \in DOMAIN note_mapping
        THEN /\ hot_thread' = [pc |-> "send", message |-> hot_thread.message,
                               use_channel |-> hot_thread.use_channel,
                               key |-> hot_thread.key,
                               reverse |-> hot_thread.reverse,
                               logical_coord |-> hot_thread.logical_coord,
                               forward |-> note_mapping,
                               mapped_note |-> note_mapping[hot_thread.logical_coord]]
             /\ last_call' = "hot_get_forward"
        ELSE /\ hot_thread' = HotIdle
             /\ last_call' = "error"
    /\ SendMessages(<<>>)
    /\ UNCHANGED <<message_queue, playing_notes, hotFrame>>

\* the update of _playing_notes and self.midi_out.send_message(remapped_message)
hot_send ==
    /\ hot_thread.pc = "send"
    /\ playing_notes' = TrackPlayingNote(playing_notes, IsNoteOn(hot_thread.message),
                            hot_thread.mapped_note, hot_thread.logical_coord,
                            Channel(hot_thread.message))
    /\ SendMessages(<<RemappedMessage(hot_thread.message, hot_thread.mapped_note)>>)
    /\ hot_thread' = HotIdle
    /\ last_call' = "remapped"
    /\ UNCHANGED <<message_queue, hotFrame>>

updateFrame == <<midi_out, controller_port, controller_out, running, message_queue,
                 playing_notes, ackVars, appVars, genVars, driverVars, hot_thread, padVars,
                 restVars>>

\* self.note_mapping = mapping.copy()
update_forward(mapping, reverse, use_channel) ==
    /\ updater.pc = "idle"
    /\ note_mapping' = mapping
    /\ updater' = [pc |-> "reverse", reverse |-> reverse, use_channel |-> use_channel]
    /\ SendMessages(<<>>)
    /\ last_call' = "update_forward"
    /\ UNCHANGED <<reverse_mapping, use_channel_for_lookup, updateFrame>>

\* self.reverse_mapping = reverse_mapping.copy()
update_reverse ==
    /\ updater.pc = "reverse"
    /\ reverse_mapping' = updater.reverse
    /\ updater' = [pc |-> "flag", use_channel |-> updater.use_channel]
    /\ SendMessages(<<>>)
    /\ last_call' = "update_reverse"
    /\ UNCHANGED <<note_mapping, use_channel_for_lookup, updateFrame>>

\* self.use_channel_for_lookup = use_channel_for_lookup
update_flag ==
    /\ updater.pc = "flag"
    /\ use_channel_for_lookup' = updater.use_channel
    /\ updater' = UpdaterIdle
    /\ SendMessages(<<>>)
    /\ last_call' = "update_note_mapping"
    /\ UNCHANGED <<note_mapping, reverse_mapping, updateFrame>>

(***************************************************************************)
(* The controller as the environment of the bridge: a pad pressed sends   *)
(* its Note-On, a pad released its Note-Off, each through _midi_callback.  *)
(* swap_stopped remembers the pads whose held note a layout swap stopped.  *)
(***************************************************************************)
LinnStrument == CHOOSE d \in Descriptors : d.device_name = "LinnStrument"

\* the note message of a pad: its channelAssign and noteAssign under the status given
PadMessage(desc, status, pad, velocity) ==
    <<status + logical_coord_to_controller_channel(desc, pad[1], pad[2]),
      logical_coord_to_controller_note(desc, pad[1], pad[2]), velocity>>

pad_press(desc, pad) ==
    /\ pad \notin pads_down
    /\ pads_down' = pads_down \cup {pad}
    /\ swap_stopped' = swap_stopped \ {pad}
    /\ MidiCallback(PadMessage(desc, NOTE_ON, pad, 100))
    /\ UNCHANGED restVars

pad_release(desc, pad) ==
    /\ pad \in pads_down
    /\ pads_down' = pads_down \ {pad}
    /\ UNCHANGED swap_stopped
    /\ MidiCallback(PadMessage(desc, NOTE_OFF, pad, 64))
    /\ UNCHANGED restVars

\* the layout swap while the controller is played
layout_swap(mapping, desc) ==
    /\ InstallLayout(mapping, build_controller_note_mapping(desc),
                     desc.channel_assign # "None")
    /\ swap_stopped' =
           IF midi_out
               THEN swap_stopped \cup
                    {playing_notes[i].coord : i \in
                        {j \in 1..Len(playing_notes) :
                            MappingChanged(mapping, playing_notes[j])}}
               ELSE swap_stopped
    /\ UNCHANGED <<pads_down, restVars>>

(***************************************************************************)
(* MIDIHandler.cancel_color_send, statement by statement, for each of its  *)
(* callers: the lock taken, the counter read, the counter written, the     *)
(* counter returned and the lock released.                                 *)
(***************************************************************************)
\* the most times the generation counter is bumped in the model
MaxGeneration == 2

genFrame == <<midi_out, controller_port, controller_out, running, message_queue,
              note_mapping, reverse_mapping, use_channel_for_lookup, playing_notes,
              ackVars, appVars, driverVars, raceVars, padVars, restVars>>

\* a lock that never makes a caller wait
ColorSendLockFree_NoLock == TRUE

\* with self._color_send_lock: the lock is free
ColorSendLockFree == color_send_lock = 0

cancel_acquire(c) ==
    /\ canceller[c].pc = "idle"
    /\ color_send_generation < MaxGeneration
    /\ ColorSendLockFree
    /\ color_send_lock' = c
    /\ canceller' = [canceller EXCEPT ![c].pc = "locked"]
    /\ SendMessages(<<>>)
    /\ last_call' = "cancel_acquire"
    /\ UNCHANGED <<color_send_generation, genFrame>>

\* self._color_send_generation += 1: the read
cancel_load(c) ==
    /\ canceller[c].pc = "locked"
    /\ canceller' = [canceller EXCEPT ![c].pc = "loaded", ![c].loaded = color_send_generation]
    /\ SendMessages(<<>>)
    /\ last_call' = "cancel_load"
    /\ UNCHANGED <<color_send_generation, color_send_lock, genFrame>>

\* self._color_send_generation += 1: the write
cancel_store(c) ==
    /\ canceller[c].pc = "loaded"
    /\ color_send_generation' = canceller[c].loaded + 1
    /\ canceller' = [canceller EXCEPT ![c].pc = "stored"]
    /\ SendMessages(<<>>)
    /\ last_call' = "cancel_store"
    /\ UNCHANGED <<color_send_lock, genFrame>>

\* return self._color_send_generation, and the lock released
cancel_return(c) ==
    /\ canceller[c].pc = "stored"
    /\ canceller' = [canceller EXCEPT ![c] = [pc |-> "idle", loaded |-> 0,
                                             result |-> color_send_generation]]
    /\ color_send_lock' = 0
    /\ SendMessages(<<>>)
    /\ last_call' = "cancel_color_send"
    /\ UNCHANGED <<color_send_generation, genFrame>>

(***************************************************************************)
(* MIDIHandler.send_raw_bytes, send_with_ack and _send_single_with_ack as  *)
(* the thread that runs them.  The driver is at "ack_check" at the top of  *)
(* send_with_ack's loop, at "ack_drain" at the top of the retry loop, at   *)
(* "ack_send" before the send, at "ack_wait" in the wait for the response  *)
(* and at "delay_check" at the top of the delay-based loop; i is the       *)
(* number of the message it is at, failed_at the number of the message at  *)
(* which send_with_ack returned False, fallback that the fallback warning  *)
(* was logged.                                                             *)
(***************************************************************************)
max_retries == 10

\* generation=None
NoGeneration == -1

driverCore == <<midi_out, controller_port, controller_out, running, message_queue,
                note_mapping, reverse_mapping, use_channel_for_lookup, playing_notes,
                appVars, genVars, raceVars, padVars, sent, sounding>>
driverFrame == <<driverCore, restVars>>

\* if self._color_send_generation != generation, when a generation is given
GenerationChanged == driver.generation # NoGeneration /\ color_send_generation # driver.generation

\* the check is made with _color_send_lock held
CheckAllowed == driver.generation = NoGeneration \/ ColorSendLockFree

\* send_with_ack returns False at message i: send_raw_bytes logs the warning and starts
\* the delay-based loop
FallBack ==
    [driver EXCEPT !.pc = "delay_check", !.i = 1, !.retries = 0, !.fallback = TRUE,
                   !.failed_at = driver.i]

SendRawBytes(data, generation, use_ack) ==
    /\ driver.pc = "idle"
    /\ IF ~controller_out \/ data = <<>>
        THEN /\ driver' = DriverIdle
             /\ last_call' = "send_raw_bytes_nothing"
        ELSE /\ driver' = [pc |-> IF use_ack THEN "ack_check" ELSE "delay_check",
                           messages |-> parse_midi_messages(data),
                           generation |-> generation,
                           i |-> 1, retries |-> 0, fallback |-> FALSE, failed_at |-> 0]
             /\ last_call' = "send_raw_bytes"
    /\ controller_sent' = <<>>
    /\ UNCHANGED <<ackVars, driverCore>>

\* send_raw_bytes, the stats of the stream left out
send_raw_bytes(data, generation, use_ack) ==
    /\ SendRawBytes(data, generation, use_ack)
    /\ UNCHANGED restVars

\* the top of send_with_ack's loop: the end of the stream, the cancellation check, and the
\* send of a message that is not a SysEx
ack_check ==
    /\ driver.pc = "ack_check"
    /\ IF driver.i > Len(driver.messages)
        THEN /\ driver' = DriverIdle
             /\ controller_sent' = <<>>
             /\ last_call' = "ack_completed"
       ELSE /\ CheckAllowed
            /\ IF GenerationChanged
                THEN /\ driver' = FallBack
                     /\ controller_sent' = <<>>
                     /\ last_call' = "ack_cancelled"
               ELSE IF driver.messages[driver.i][1] = SYSEX
                THEN /\ driver' = [driver EXCEPT !.pc = "ack_drain", !.retries = 0]
                     /\ controller_sent' = <<>>
                     /\ last_call' = "ack_check"
               ELSE IF controller_out
                THEN /\ driver' = [driver EXCEPT !.i = driver.i + 1]
                     /\ controller_sent' = <<driver.messages[driver.i]>>
                     /\ last_call' = "ack_send_plain"
               ELSE /\ driver' = FallBack
                    /\ controller_sent' = <<>>
                    /\ last_call' = "ack_failed_exception"
    /\ UNCHANGED <<ackVars, driverFrame>>

\* while retries < max_retries: the response queue emptied and the listening flag set
AckDrain ==
    /\ driver.pc = "ack_drain"
    /\ IF driver.retries < max_retries
        THEN /\ ack_response_queue' = <<>>
             /\ waiting_for_ack' = TRUE
             /\ driver' = [driver EXCEPT !.pc = "ack_send"]
             /\ last_call' = "ack_drain"
        ELSE /\ driver' = FallBack
             /\ last_call' = "ack_failed_busy"
             /\ UNCHANGED ackVars
    /\ controller_sent' = <<>>
    /\ UNCHANGED driverCore

\* the top of the retry loop, the stats of the stream left out
ack_drain ==
    /\ AckDrain
    /\ UNCHANGED restVars

\* self.controller_out.send_message(msg)
ack_send ==
    /\ driver.pc = "ack_send"
    /\ IF controller_out
        THEN /\ driver' = [driver EXCEPT !.pc = "ack_wait"]
             /\ controller_sent' = <<driver.messages[driver.i]>>
             /\ last_call' = "ack_send"
             /\ UNCHANGED waiting_for_ack
        ELSE /\ driver' = FallBack
             /\ controller_sent' = <<>>
             /\ last_call' = "ack_failed_exception"
             /\ waiting_for_ack' = FALSE
    /\ UNCHANGED <<ack_response_queue, driverFrame>>

\* an attempt whose flag is cleared only when a response has been read
ack_wait_NoFinally ==
    /\ driver.pc = "ack_wait"
    /\ waiting_for_ack' = (ack_response_queue = <<>>)
    /\ controller_sent' = <<>>
    /\ IF ack_response_queue = <<>>
        THEN /\ driver' = FallBack
             /\ last_call' = "ack_failed_timeout"
             /\ UNCHANGED ack_response_queue
        ELSE /\ ack_response_queue' = Tail(ack_response_queue)
             /\ LET outcome == ResponseOutcome(AckConfig, Head(ack_response_queue)) IN
                IF outcome = "ack"
                    THEN /\ driver' = [driver EXCEPT !.pc = "ack_check", !.i = driver.i + 1]
                         /\ last_call' = "ack_next"
                ELSE IF outcome = "busy"
                    THEN /\ driver' = [driver EXCEPT !.pc = "ack_drain",
                                                     !.retries = driver.retries + 1]
                         /\ last_call' = "ack_busy"
                ELSE /\ driver' = FallBack
                     /\ last_call' = IF outcome = "nack" THEN "ack_failed_nack"
                                                         ELSE "ack_failed_error"
    /\ UNCHANGED driverFrame

\* response = self._ack_response_queue.get(timeout=...): the response read, or the timeout
AckWait ==
    /\ driver.pc = "ack_wait"
    /\ waiting_for_ack' = FALSE
    /\ controller_sent' = <<>>
    /\ IF ack_response_queue = <<>>
        THEN /\ driver' = FallBack
             /\ last_call' = "ack_failed_timeout"
             /\ UNCHANGED ack_response_queue
        ELSE /\ ack_response_queue' = Tail(ack_response_queue)
             /\ LET outcome == ResponseOutcome(AckConfig, Head(ack_response_queue)) IN
                IF outcome = "ack"
                    THEN /\ driver' = [driver EXCEPT !.pc = "ack_check", !.i = driver.i + 1]
                         /\ last_call' = "ack_next"
                ELSE IF outcome = "busy"
                    THEN /\ driver' = [driver EXCEPT !.pc = "ack_drain",
                                                     !.retries = driver.retries + 1]
                         /\ last_call' = "ack_busy"
                ELSE /\ driver' = FallBack
                     /\ last_call' = IF outcome = "nack" THEN "ack_failed_nack"
                                                         ELSE "ack_failed_error"
    /\ UNCHANGED driverCore

\* the wait for the response, the stats of the stream left out
ack_wait ==
    /\ AckWait
    /\ UNCHANGED restVars

\* stats["sent"] += 1 and stats[outcome] += 1, when _send_single_with_ack has returned
Counted(outcome) == [stats EXCEPT !.sent = @ + 1, ![outcome] = @ + 1]

statFrame == <<other_driver, oscVars, callVars, queue_maxsize, threadVars>>

\* send_raw_bytes in ACK mode without a generation, with the stats send_with_ack starts
send_with_stats(data) ==
    /\ SendRawBytes(data, NoGeneration, TRUE)
    /\ stats' = ZeroStats
    /\ delays' = 0
    /\ UNCHANGED statFrame

\* the top of the retry loop, with the stats: past max_retries the outcome is "busy"
ack_drain_with_stats ==
    /\ AckDrain
    /\ stats' = IF driver.retries < max_retries THEN stats ELSE Counted("busy")
    /\ UNCHANGED <<delays, statFrame>>

\* the wait for the response, with the stats: a delay is waited out and retried inside
\* _send_single_with_ack, which returns no outcome for it
ack_wait_with_stats ==
    /\ AckWait
    /\ LET outcome == IF ack_response_queue = <<>> THEN "timeout"
                      ELSE ResponseOutcome(AckConfig, Head(ack_response_queue))
       IN  /\ stats' = IF outcome = "busy" THEN stats ELSE Counted(outcome)
           /\ delays' = IF outcome = "busy" THEN delays + 1 ELSE delays
    /\ UNCHANGED statFrame

\* the delay-based loop: the end of the stream, the cancellation check, the send
delay_step ==
    /\ driver.pc = "delay_check"
    /\ IF driver.i > Len(driver.messages)
        THEN /\ driver' = DriverIdle
             /\ controller_sent' = <<>>
             /\ last_call' = "delay_completed"
       ELSE /\ CheckAllowed
            /\ IF GenerationChanged
                THEN /\ driver' = DriverIdle
                     /\ controller_sent' = <<>>
                     /\ last_call' = "delay_cancelled"
               ELSE IF controller_out
                THEN /\ driver' = [driver EXCEPT !.i = driver.i + 1]
                     /\ controller_sent' = <<driver.messages[driver.i]>>
                     /\ last_call' = "delay_send"
               ELSE /\ driver' = DriverIdle
                    /\ controller_sent' = <<>>
                    /\ last_call' = "delay_error"
    /\ UNCHANGED <<ackVars, driverFrame>>

\* send_raw_bytes running on two threads: the processor passes from the one to the other
\* between any two of their statements
switch_thread ==
    /\ driver # other_driver
    /\ driver' = other_driver
    /\ other_driver' = driver
    /\ controller_sent' = <<>>
    /\ SendMessages(<<>>)
    /\ last_call' = "switch_thread"
    /\ UNCHANGED <<midi_out, controller_port, controller_out, running, message_queue,
                   note_mapping, reverse_mapping, use_channel_for_lookup, playing_notes,
                   ackVars, appVars, genVars, raceVars, padVars, oscVars, callVars,
                   queue_maxsize, threadVars, statVars>>

(***************************************************************************)
(* The specifications.  Each starts from the handler and the coordinator   *)
(* as constructed.                                                         *)
(***************************************************************************)
Constructed ==
    /\ midi_out = FALSE
    /\ controller_port = FALSE
    /\ running = FALSE
    /\ message_queue = <<>>
    /\ note_mapping = <<>>
    /\ reverse_mapping = <<>>
    /\ use_channel_for_lookup = FALSE
    /\ playing_notes = <<>>
    /\ waiting_for_ack = FALSE
    /\ ack_response_queue = <<>>
    /\ current_controller = NoController
    /\ current_layout_config = 0
    /\ current_layout_calculator = NoCalculator
    /\ tuning_mode = 0
    /\ controller_out = FALSE
    /\ color_send_generation = 0
    /\ color_send_lock = 0
    /\ canceller = [c \in Callers |-> CallerIdle]
    /\ driver = DriverIdle
    /\ controller_sent = <<>>
    /\ hot_thread = HotIdle
    /\ updater = UpdaterIdle
    /\ pads_down = {}
    /\ swap_stopped = {}
    /\ other_driver = DriverIdle
    /\ osc_running = FALSE
    /\ hot_alive = 0
    /\ discovery_running = FALSE
    /\ alive = {}
    /\ stats = ZeroStats
    /\ delays = 0
    /\ osc_connected = FALSE
    /\ last_ack_time = 0
    /\ clock = StartTime
    /\ notified = <<>>
    /\ call = NoCall
    /\ returned = <<>>
    /\ sent = <<>>
    /\ sounding = {}
    /\ last_call = "init"

\* the input queue holds MaxQueue messages
Init ==
    /\ Constructed
    /\ queue_maxsize = MaxQueue

\* the hot path: the controller's messages remapped through installed tables
Next ==
    \/ \E ok \in BOOLEAN : initialize_virtual_port(ok)
    \/ start
    \/ \E matched \in BOOLEAN : connect_to_controller(matched, matched)
    \/ disconnect_controller
    \/ \E message \in InputMessages : midi_callback(message)
    \/ ProcessingLoop
    \/ \E m \in ForwardTables, r \in ReverseTables, u \in BOOLEAN : update_note_mapping(m, r, u)

Spec == Init /\ [][Next]_vars

\* the layout swap: notes held through the UI, diffed against the tables being installed
NextSwap ==
    \/ \E ok \in BOOLEAN : initialize_virtual_port(ok)
    \/ \E n \in OutNotes, c \in Channels, lc \in Pads \cup {NoCoord} :
           send_note_on(n, 100, c, lc)
    \/ \E n \in OutNotes, c \in Channels : send_note_off(n, c)
    \/ stop_all_playing_notes
    \/ \E m \in SwapTables : stop_notes_with_changed_mapping(m)
    \/ \E m \in SwapTables, d \in Descriptors :
           install_layout(m, build_controller_note_mapping(d), d.channel_assign # "None")

SpecSwap == Init /\ [][NextSwap]_vars

\* the coordinator: every rebuild of the tables, with notes held through the UI
NextApp ==
    \/ \E keyboard \in BOOLEAN, ok \in BOOLEAN : app_start(keyboard, ok)
    \/ \E d \in DeviceNames \cup {"Unknown"}, matched \in BOOLEAN :
           app_connect_to_controller(d, matched)
    \/ app_disconnect_controller
    \/ \E config \in 0..MaxMove : update_layout_config(config)
    \/ apply_transformation
    \/ \E nargs \in {6, 7, 8}, mode \in {0, 1} : handle_scale_update(nargs, mode)
    \/ \E lc \in DOMAIN note_mapping :
           /\ Len(playing_notes) < MaxPlaying
           /\ send_note_on(note_mapping[lc], 100, 0, lc)
    \/ \E n \in DictKeys(playing_notes) : send_note_off(n, 0)

SpecApp == Init /\ [][NextApp]_vars

\* the tables installed as a pair: each reverse table with the flag of its descriptor and a
\* forward table of its own
Installations ==
    { [mapping |-> (<<0, 0>> :> 60) @@ (<<1, 0>> :> 67),
       reverse |-> (<<0, 0>> :> <<0, 0>>) @@ (<<0, 1>> :> <<1, 0>>),
       use_channel |-> FALSE],
      [mapping |-> (<<0, 0>> :> 67),
       reverse |-> (<<0, 0>> :> <<0, 0>>) @@ (<<1, 1>> :> <<1, 0>>),
       use_channel |-> TRUE] }

RaceMessages == {<<NOTE_ON, 0, 100>>, <<NOTE_ON + 1, 1, 100>>, <<NOTE_OFF, 0, 64>>}

\* the hot thread and the updater as two threads: every interleaving of their statements
NextRace ==
    \/ \E ok \in BOOLEAN : initialize_virtual_port(ok)
    \/ start
    \/ \E matched \in BOOLEAN : connect_to_controller(matched, matched)
    \/ \E message \in RaceMessages : midi_callback(message)
    \/ hot_get
    \/ hot_lookup_channel
    \/ hot_test_reverse
    \/ hot_get_reverse
    \/ hot_test_forward
    \/ hot_get_forward
    \/ hot_send
    \/ \E inst \in Installations :
           update_forward(inst.mapping, inst.reverse, inst.use_channel)
    \/ update_reverse
    \/ update_flag

SpecRace == Init /\ [][NextRace]_vars

\* the bridge end to end: the coordinator rebuilds the tables, the controller plays
NextBridge ==
    \/ \E keyboard \in BOOLEAN, ok \in BOOLEAN : app_start(keyboard, ok)
    \/ \E d \in DeviceNames, matched \in BOOLEAN : app_connect_to_controller(d, matched)
    \/ app_disconnect_controller
    \/ apply_transformation
    \/ \E mode \in {0, 1} : handle_scale_update(7, mode)
    \/ \E message \in InputMessages : midi_callback(message)
    \/ ProcessingLoop

SpecBridge == Init /\ [][NextBridge]_vars

\* layout swaps while pads are held on the controller
NextHeld ==
    \/ \E ok \in BOOLEAN : initialize_virtual_port(ok)
    \/ start
    \/ \E matched \in BOOLEAN : connect_to_controller(matched, matched)
    \/ \E pad \in Pads : pad_press(LinnStrument, pad)
    \/ \E pad \in Pads : pad_release(LinnStrument, pad)
    \/ ProcessingLoop
    \/ \E m \in ForwardTables : layout_swap(m, LinnStrument)

SpecHeld == Init /\ [][NextHeld]_vars

\* a response of the device: its status byte at position 5
AckResponse(value) == <<SYSEX, 0, 33, 80, 0, value, 247>>

\* the responses: NACK, ACK, BUSY, a status the table lacks, and one too short
DriverResponses == {AckResponse(v) : v \in {0, 1, 2, 9}} \cup {<<SYSEX, 0, 247>>}

\* the programming streams: three SysEx messages, and two with a note between them
Streams ==
    { <<SYSEX, 1, 247, SYSEX, 2, 247, SYSEX, 3, 247>>,
      <<SYSEX, 1, 247, NOTE_ON, 60, 100, SYSEX, 2, 247>> }

\* the programming driver, the device that answers a message once while the driver
\* listens, and a caller of cancel_color_send
NextDriver ==
    \/ connect_to_controller(TRUE, TRUE)
    \/ disconnect_controller
    \/ \E data \in Streams \cup {<<>>},
          generation \in {NoGeneration, color_send_generation},
          use_ack \in BOOLEAN :
           send_raw_bytes(data, generation, use_ack)
    \/ ack_check
    \/ ack_drain
    \/ ack_send
    \/ ack_wait
    \/ delay_step
    \/ \E response \in DriverResponses :
           /\ waiting_for_ack
           /\ ack_response_queue = <<>>
           /\ midi_callback(response)
    \/ cancel_acquire(1)
    \/ cancel_load(1)
    \/ cancel_store(1)
    \/ cancel_return(1)

SpecDriver == Init /\ [][NextDriver]_vars

\* the callers of cancel_color_send, concurrently, and a delay-based stream tagged with the
\* generation
NextGen ==
    \/ connect_to_controller(TRUE, TRUE)
    \/ \E data \in Streams, generation \in {NoGeneration, color_send_generation} :
           send_raw_bytes(data, generation, FALSE)
    \/ delay_step
    \/ \E c \in Callers : cancel_acquire(c)
    \/ \E c \in Callers : cancel_load(c)
    \/ \E c \in Callers : cancel_store(c)
    \/ \E c \in Callers : cancel_return(c)

SpecGen == Init /\ [][NextGen]_vars

\* a programming stream of two SysEx messages
ShortStream == <<SYSEX, 1, 247, SYSEX, 2, 247>>

\* two programming threads and a device that answers ACK or not at all: a stream is started
\* in ACK mode with the generation its invoker has just obtained, so never with the tag of
\* a stream that is still running
NextStreams ==
    \/ connect_to_controller(TRUE, TRUE)
    \/ /\ other_driver.pc # "idle" => other_driver.generation # color_send_generation
       /\ send_raw_bytes(ShortStream, color_send_generation, TRUE)
    \/ ack_check
    \/ ack_drain
    \/ ack_send
    \/ ack_wait
    \/ delay_step
    \/ switch_thread
    \/ /\ waiting_for_ack
       /\ ack_response_queue = <<>>
       /\ midi_callback(AckResponse(1))
    \/ cancel_acquire(1)
    \/ cancel_load(1)
    \/ cancel_store(1)
    \/ cancel_return(1)

SpecStreams == Init /\ [][NextStreams]_vars

\* streams of one, two and three SysEx messages
SysExStreams ==
    { <<SYSEX, 1, 247>>,
      <<SYSEX, 1, 247, SYSEX, 2, 247>>,
      <<SYSEX, 1, 247, SYSEX, 2, 247, SYSEX, 3, 247>> }

\* the device answers the message the driver has sent, once, with ACK
respond_next ==
    /\ driver.pc = "ack_wait"
    /\ waiting_for_ack
    /\ ack_response_queue = <<>>
    /\ midi_callback(AckResponse(1))

\* the wait for a response that arrives before the timeout
ack_wait_answered ==
    /\ ack_response_queue # <<>>
    /\ ack_wait

\* the ACK driver with a device that answers every SysEx with NEXT before the timeout; the
\* generation counter is left alone
NextLive ==
    \/ connect_to_controller(TRUE, TRUE)
    \/ \E data \in SysExStreams, generation \in {NoGeneration, color_send_generation} :
           send_raw_bytes(data, generation, TRUE)
    \/ ack_check
    \/ ack_drain
    \/ ack_send
    \/ ack_wait_answered
    \/ respond_next

\* the programming thread is scheduled and the device answers
SpecLive ==
    /\ Init
    /\ [][NextLive]_vars
    /\ WF_vars(ack_check)
    /\ WF_vars(ack_drain)
    /\ WF_vars(ack_send)
    /\ WF_vars(ack_wait_answered)
    /\ WF_vars(respond_next)

\* the most messages in a byte stream given to the parser
MaxMessages == 3

\* well-formed messages of every kind of framing
WellFormedMessages ==
    { <<SYSEX, 1, 247>>, <<SYSEX, 247>>, <<NOTE_ON, 60, 100>>, <<NOTE_OFF + 1, 60, 0>>,
      <<PROGRAM_CHANGE, 5>>, <<208, 64>>, <<241, 0>>, <<243, 1>>, <<242, 1, 2>>,
      <<246>>, <<248>>, <<255>> }

MessageLists == UNION {[1..n -> WellFormedMessages] : n \in 0..MaxMessages}

\* the parser, given every concatenation of well-formed messages
NextParse == \E messages \in MessageLists : parse_call(messages)

SpecParse == Init /\ [][NextParse]_vars

\* messages of the controller in a stream: two of a note, a controller change, a
\* program change
StreamMessages ==
    {<<NOTE_ON, 0, 100>>, <<NOTE_OFF, 0, 64>>, <<177, 1, 100>>, <<PROGRAM_CHANGE, 5>>}

\* the input queue under a controller faster than the hot thread, the queue holding one
\* message more than in the other specifications
NextQueue ==
    \/ initialize_virtual_port(TRUE)
    \/ start
    \/ connect_to_controller(TRUE, TRUE)
    \/ \E m \in ForwardTables, r \in ReverseTables : update_note_mapping(m, r, FALSE)
    \/ \E message \in StreamMessages : controller_input(message)
    \/ ProcessingLoop

\* the input queue holds one message more than MaxQueue
InitQueue ==
    /\ Constructed
    /\ queue_maxsize = MaxQueue + 1

SpecQueue == InitQueue /\ [][NextQueue]_vars

\* what the controller sends during and between programming streams: a response, a
\* SysEx of its own, a note
SysExInput == {AckResponse(1), <<SYSEX, 5, 247>>, <<NOTE_ON, 0, 100>>}

\* the controller's SysEx arriving while the hot thread runs and streams are programmed
NextSysEx ==
    \/ initialize_virtual_port(TRUE)
    \/ start
    \/ connect_to_controller(TRUE, TRUE)
    \/ send_raw_bytes(<<SYSEX, 1, 247>>, NoGeneration, TRUE)
    \/ ack_check
    \/ ack_drain
    \/ ack_send
    \/ ack_wait
    \/ delay_step
    \/ \E message \in SysExInput : controller_input(message)
    \/ ProcessingLoop

SpecSysEx == Init /\ [][NextSysEx]_vars

\* build_controller_note_mapping() of a descriptor with the given pads
build_call(desc, pads) ==
    /\ call' = [op |-> "build_controller_note_mapping", desc |-> desc, pads |-> pads]
    /\ returned' = BuildFrom(desc, pads, <<>>)
    /\ SendMessages(<<>>)
    /\ last_call' = "build_controller_note_mapping"
    /\ UNCHANGED callFrame

\* the most pads of a descriptor in the model
MaxPads == 3

\* the pads of a grid of two rows and two columns
GridPads == {<<x, y>> : x \in {0, 1}, y \in {0, 1}}

\* self.pads: up to MaxPads different pads in an order
PadOrders ==
    {pads \in UNION {[1..n -> GridPads] : n \in 1..MaxPads} :
        \A i, j \in 1..Len(pads) : i # j => pads[i] # pads[j]}

\* descriptors by their noteAssign and channelAssign: absent, raising, one note a row,
\* one note a pad, and notes above and below the range of MIDI
BuildDescriptors ==
    [note_assign : {"None", "1/0", "y", "x + 16*y", "x + 127", "x - 128"},
     channel_assign : {"None", "1/0", "x", "y"}]

NextBuild == \E desc \in BuildDescriptors, pads \in PadOrders : build_call(desc, pads)

SpecBuild == Init /\ [][NextBuild]_vars

\* the coordinator started, and then the errors it survives: a controller whose port
\* is not found, a stream whose responses fail to come, a tuning frame that raises, an
\* input queue that overflows, a send that raises
NextFailure ==
    \/ \E keyboard \in BOOLEAN, ok \in BOOLEAN : app_start(keyboard, ok)
    \/ \E matched \in BOOLEAN : connect_to_controller(matched, matched)
    \/ send_raw_bytes(<<SYSEX, 1, 247>>, NoGeneration, TRUE)
    \/ ack_check
    \/ ack_drain
    \/ ack_send
    \/ ack_wait
    \/ delay_step
    \/ scale_update_raises
    \/ \E message \in StreamMessages : controller_input(message)
    \/ ProcessingLoop
    \/ processing_loop_raises

SpecFailure == InitQueue /\ [][NextFailure]_vars

(***************************************************************************)
(* find_best_matching_port.  A name is the sequence of its characters.     *)
(***************************************************************************)
\* search_string in port
Contains(search_string, port) ==
    \E i \in 0..(Len(port) - Len(search_string)) :
        SubSeq(port, i + 1, i + Len(search_string)) = search_string

\* a minimum that a later port of the same length replaces
Shorter_OrEqual(port, best) == Len(port) <= Len(best)

\* min(..., key=len) replaces the minimum it holds only by a port with a smaller key
Shorter(port, best) == Len(port) < Len(best)

RECURSIVE MinByLen(_, _)
\* min(matching_ports, key=len), from the minimum of the ports already seen
MinByLen(ports, best) ==
    IF ports = <<>> THEN best
    ELSE MinByLen(Tail(ports), IF Shorter(Head(ports), best) THEN Head(ports) ELSE best)

\* None is <<>>, a port name is <<name>>
find_best_matching_port(search_string, available_ports) ==
    LET matching_ports == SelectSeq(available_ports,
                                    LAMBDA port : Contains(search_string, port))
    IN  IF matching_ports = <<>> THEN <<>>
        ELSE <<MinByLen(Tail(matching_ports), Head(matching_ports))>>

\* a call of find_best_matching_port
port_call(search_string, available_ports) ==
    /\ call' = [op |-> "find_best_matching_port", search_string |-> search_string,
                available_ports |-> available_ports]
    /\ returned' = find_best_matching_port(search_string, available_ports)
    /\ SendMessages(<<>>)
    /\ last_call' = "find_best_matching_port"
    /\ UNCHANGED callFrame

\* the longest name and the most ports in the model
MaxName == 3
MaxPorts == 2

\* names of up to MaxName characters
Names == UNION {[1..n -> {"a", "b"}] : n \in 0..MaxName}

\* lists of up to MaxPorts ports
PortLists == UNION {[1..n -> Names \ {<<>>}] : n \in 0..MaxPorts}

NextPorts ==
    \E search_string \in {<<>>, <<"a">>, <<"b">>, <<"a", "b">>, <<"b", "b">>},
       available_ports \in PortLists :
        port_call(search_string, available_ports)

SpecPorts == Init /\ [][NextPorts]_vars

\* a stream in ACK mode on one thread, the controller answering with any response at any
\* time, asked or not, and its ports closed under the stream
NextAttempt ==
    \/ connect_to_controller(TRUE, TRUE)
    \/ disconnect_controller
    \/ send_raw_bytes(ShortStream, NoGeneration, TRUE)
    \/ ack_check
    \/ ack_drain
    \/ ack_send
    \/ ack_wait
    \/ delay_step
    \/ \E response \in DriverResponses : controller_input(response)

SpecAttempt == Init /\ [][NextAttempt]_vars

\* the most delay responses the device gives to a stream
MaxDelays == 2

\* a stream of three SysEx messages
ThreeSysEx == <<SYSEX, 1, 247, SYSEX, 2, 247, SYSEX, 3, 247>>

\* the device answers the message the driver has sent, once: NEXT, or BUSY while it has
\* given fewer than MaxDelays of them
respond ==
    /\ driver.pc = "ack_wait"
    /\ waiting_for_ack
    /\ ack_response_queue = <<>>
    /\ \E value \in {1, 2} :
           /\ value = 2 => delays < MaxDelays
           /\ midi_callback(AckResponse(value))

\* a stream in ACK mode with its stats, the device answering NEXT or BUSY or not at all
NextRetry ==
    \/ connect_to_controller(TRUE, TRUE)
    \/ send_with_stats(ThreeSysEx)
    \/ ack_check
    \/ ack_drain_with_stats
    \/ ack_send
    \/ ack_wait_with_stats
    \/ delay_step
    \/ respond

SpecRetry == Init /\ [][NextRetry]_vars

\* the most threads of _processing_loop alive at once in the model
MaxThreads == 2

\* the handler started and stopped again and again while the controller plays
NextThreads ==
    \/ initialize_virtual_port(TRUE)
    \/ hot_alive < MaxThreads /\ start
    \/ start_while_running
    \/ \E joined \in SUBSET {HotThread} : stop(joined)
    \/ loop_exit
    \/ connect_to_controller(TRUE, TRUE)
    \/ \E message \in StreamMessages : controller_input(message)
    \/ ProcessingLoop

SpecThreads == Init /\ [][NextThreads]_vars

\* the coordinator started, a controller connected and playing while it runs, and the
\* coordinator stopped; nothing is asked of a stopped coordinator
NextShutdown ==
    \/ \E ok \in BOOLEAN : app_start(FALSE, ok)
    \/ running /\ connect_to_controller(TRUE, TRUE)
    \/ \E message \in StreamMessages : controller_input(message)
    \/ ProcessingLoop
    \/ \E joined \in SUBSET (Threads \cup {HotThread}) : app_stop(joined)
    \/ loop_exit
    \/ \E t \in Threads : thread_exit(t)

\* every loop tests its flag again within a bounded time: the dequeue of the hot thread
\* waits 0.1 s, the other loops sleep 1 s, 0.5 s and the discovery interval
SpecShutdown ==
    /\ Init
    /\ [][NextShutdown]_vars
    /\ WF_vars(loop_exit)
    /\ \A t \in Threads : WF_vars(thread_exit(t))

(***************************************************************************)
(* ControllerConfig: the position of the status byte in a response.  A     *)
(* template is a sequence of items as they are written in the descriptor:  *)
(* a number, a named constant, a function call or an expression in braces, *)
(* the last two of one or more words.  The empty sequence is no template.  *)
(* An optional value is a sequence of at most one value.                   *)
(***************************************************************************)
\* the tokens of normalized.split() an item makes: re.sub has made one word of a call
Tokens(item) ==
    IF item.kind = "call" THEN <<"FUNC_CALL">>
    ELSE IF item.kind = "brace" THEN [k \in 1..item.words |-> "{}"]
    ELSE <<item.text>>

\* the bytes a token stands for
TokenBytes(token) == IF token = "MANUFACTURER_CODE" THEN 3 ELSE 1

RECURSIVE Normalized(_)
\* tokens = normalized.split()
Normalized(template) ==
    IF template = <<>> THEN <<>>
    ELSE Tokens(Head(template)) \o Normalized(Tail(template))

RECURSIVE PositionIn(_, _)
\* the loop over the tokens, from a position
PositionIn(tokens, position) ==
    IF tokens = <<>> THEN <<>>
    ELSE IF Head(tokens) = "MIDI_RESPONSE_TYPE" THEN <<position>>
    ELSE PositionIn(Tail(tokens), position + TokenBytes(Head(tokens)))

\* find_midi_response_type_position
find_midi_response_type_position(template) == PositionIn(Normalized(template), 0)

\* the position ControllerConfig.__init__ gives the ACK configuration
response_position(config) ==
    LET from_color == find_midi_response_type_position(config.SetPadColorResponse)
        from_note == IF from_color = <<>>
                     THEN find_midi_response_type_position(
                              config.SetPadNoteAndChannelResponse)
                     ELSE from_color
    IN  IF from_note # <<>> THEN from_note[1]
        ELSE IF config.ResponsePosition # <<>> THEN config.ResponsePosition[1]
        ELSE 5

\* ControllerConfig(path) of a descriptor with an ACKBasedMIDIMessaging section
load_config(config) ==
    /\ call' = [op |-> "ControllerConfig", config |-> config]
    /\ returned' = <<response_position(config)>>
    /\ SendMessages(<<>>)
    /\ last_call' = "ControllerConfig"
    /\ UNCHANGED callFrame

Number(text) == [kind |-> "number", text |-> text]
Name(text) == [kind |-> "name", text |-> text]
FunctionCall(words) == [kind |-> "call", words |-> words]
Braces(words) == [kind |-> "brace", words |-> words]

\* response templates: none, the Lumatone's, one without the status, one with an
\* expression of three words before the status, one with the status first
Templates ==
    { <<>>,
      <<Number("240"), Name("MANUFACTURER_CODE"), FunctionCall(2), Name("SET_KEY_COLOUR"),
        Name("MIDI_RESPONSE_TYPE"), Number("247")>>,
      <<Number("240"), Name("MANUFACTURER_CODE"), Number("0x01"), Number("247")>>,
      <<Number("240"), Braces(3), Braces(1), Name("MIDI_RESPONSE_TYPE"), Number("247")>>,
      <<Name("MIDI_RESPONSE_TYPE"), Number("247")>> }

\* descriptors with an ACKBasedMIDIMessaging section, with and without ResponsePosition
Configs ==
    [SetPadColorResponse : Templates,
     SetPadNoteAndChannelResponse : Templates,
     ResponsePosition : {<<>>, <<3>>, <<4>>, <<6>>, <<7>>}]

NextConfig == \E config \in Configs : load_config(config)

SpecConfig == Init /\ [][NextConfig]_vars

\* the addresses of the messages the peer sends: the five mapped ones and another
OscAddresses == DOMAIN Handlers \cup {"/pitchgrid/other"}

\* the OSC session of the started coordinator
NextOsc ==
    \/ \E keyboard \in BOOLEAN, ok \in BOOLEAN : app_start(keyboard, ok)
    \/ tick
    \/ monitor_connection
    \/ \E address \in OscAddresses, nargs \in {6, 7, 8}, mode \in {0, 1} :
           osc_message(address, nargs, mode)

SpecOsc == Init /\ [][NextOsc]_vars

(***************************************************************************)
(* The claims.  A step of the hot thread is a step that dequeues; the      *)
(* message it processes is the head of the queue before the step.  The     *)
(* registry P is read as the map from output note to <<coordinate,         *)
(* channel>>.                                                              *)
(***************************************************************************)
HotBranches == {"no_output", "remapped", "unmapped", "no_logical_coord", "pass_through"}

HotStep ==
    /\ message_queue # <<>>
    /\ message_queue' = Tail(message_queue)
    /\ last_call' \in HotBranches

\* the status byte says Note-On or Note-Off
NoteOnOrOff(message) == message[1] >= 128 /\ message[1] < 160

\* the lookup key the specification gives: (channel, note), or (0, note) with channels masked
SpecKey(message) ==
    IF use_channel_for_lookup THEN <<message[1] % 16, message[2]>> ELSE <<0, message[2]>>

Registry(p) == [n \in DictKeys(p) |-> <<DictGet(p, n).coord, DictGet(p, n).channel>>]

Without(f, n) == [k \in DOMAIN f \ {n} |-> f[k]]

Count(messages, m) == Cardinality({i \in 1..Len(messages) : messages[i] = m})

\* C1: a Note-On or Note-Off dequeued by the hot thread whose lookup key has no entry in R,
\* or whose logical coordinate has no entry in F, sends nothing to the virtual output and
\* leaves the playing-notes registry P unchanged.
C1_UnmappedNoteDropped ==
    [][(/\ HotStep
        /\ NoteOnOrOff(Head(message_queue))
        /\ \/ SpecKey(Head(message_queue)) \notin DOMAIN reverse_mapping
           \/ reverse_mapping[SpecKey(Head(message_queue))] \notin DOMAIN note_mapping)
       => (sent' = <<>> /\ playing_notes' = playing_notes)]_vars

\* a note of a pad that R knows and F does not was dropped while another note was held
C1_Witness == last_call = "unmapped" /\ playing_notes # <<>> /\ midi_out

\* C2: with the virtual output open, a Note-On or Note-Off whose pad is mapped in both R and
\* F makes the hot thread send exactly one message: the input with byte 1 replaced by
\* F[R[key]], status byte (type and channel) and velocity byte unchanged.
C2_MappedNoteRewritten ==
    [][(/\ HotStep
        /\ midi_out
        /\ NoteOnOrOff(Head(message_queue))
        /\ ReverseKey(Head(message_queue)) \in DOMAIN reverse_mapping
        /\ reverse_mapping[ReverseKey(Head(message_queue))] \in DOMAIN note_mapping)
       => sent' = << <<Head(message_queue)[1],
                       note_mapping[reverse_mapping[ReverseKey(Head(message_queue))]],
                       Head(message_queue)[3]>> >>]_vars

\* a Note-Off of velocity 64 on channel 1 was rewritten and sent
C2_Witness ==
    /\ last_call = "remapped"
    /\ Len(sent) = 1
    /\ sent[1][1] = NOTE_OFF + 1
    /\ sent[1][3] = 64

\* C3: the hot thread looks R up with (incoming channel, note) when use_channel_for_lookup
\* is true and with (0, note) otherwise: a note is forwarded exactly when that key resolves
\* to a pad that F maps, the forwarded note is the F-note of that pad, and the forwarded
\* message keeps the incoming channel.
C3_LookupKey ==
    [][(/\ HotStep
        /\ midi_out
        /\ NoteOnOrOff(Head(message_queue)))
       => LET m == Head(message_queue)
              key == IF use_channel_for_lookup THEN <<m[1] % 16, m[2]>> ELSE <<0, m[2]>>
              resolved == /\ key \in DOMAIN reverse_mapping
                          /\ reverse_mapping[key] \in DOMAIN note_mapping
          IN  /\ (sent' # <<>>) <=> resolved
              /\ resolved => /\ sent'[1][2] = note_mapping[reverse_mapping[key]]
                             /\ sent'[1][1] % 16 = m[1] % 16]_vars

\* with channel lookup off, a note that arrived on channel 1 was resolved and left on channel 1
C3_Witness ==
    /\ last_call = "remapped"
    /\ ~use_channel_for_lookup
    /\ Len(sent) = 1
    /\ sent[1][1] % 16 = 1

\* C4: with the virtual output open, a mapped Note-On of velocity > 0 on channel c from pad
\* (lx,ly) sets P[F[(lx,ly)]] = ((lx,ly), c); a mapped Note-Off, or a mapped Note-On of
\* velocity 0, leaves P without an entry for the pad's output note; the other entries of P
\* are kept, and no other message of the hot thread changes P.
C4_RegistryUpdate ==
    [][HotStep
       => LET m == Head(message_queue)
              key == SpecKey(m)
              mapped == /\ midi_out
                        /\ NoteOnOrOff(m)
                        /\ key \in DOMAIN reverse_mapping
                        /\ reverse_mapping[key] \in DOMAIN note_mapping
          IN  IF mapped
                  THEN LET coord == reverse_mapping[key]
                           n == note_mapping[coord]
                       IN  IF m[1] >= 144 /\ m[3] > 0
                               THEN Registry(playing_notes') =
                                        (n :> <<coord, m[1] % 16>>) @@ Registry(playing_notes)
                               ELSE Registry(playing_notes') =
                                        Without(Registry(playing_notes), n)
                  ELSE playing_notes' = playing_notes]_vars

\* a Note-On of velocity 0 was remapped while another note stayed in the registry
C4_Witness ==
    /\ last_call = "remapped"
    /\ Len(sent) = 1
    /\ sent[1][1] >= 144
    /\ sent[1][3] = 0
    /\ playing_notes # <<>>

\* C5: with the virtual output open, a dequeued message that is not a Note-On or Note-Off
\* is forwarded to the virtual output byte for byte, and P and both tables are unchanged.
C5_OthersPassThrough ==
    [][(/\ HotStep
        /\ midi_out
        /\ ~NoteOnOrOff(Head(message_queue)))
       => /\ sent' = <<Head(message_queue)>>
          /\ playing_notes' = playing_notes
          /\ note_mapping' = note_mapping
          /\ reverse_mapping' = reverse_mapping
          /\ use_channel_for_lookup' = use_channel_for_lookup]_vars

\* a control change whose data byte is a mapped controller note was passed through
C5_Witness ==
    /\ last_call = "pass_through"
    /\ sent = << <<177, 1, 100>> >>
    /\ <<0, 1>> \in DOMAIN reverse_mapping

\* C6: stuck-note freedom: once a disconnect ends a sequence of Note-On, Note-Off and
\* layout-swap operations, P is empty and no <<channel, note>> is left with a Note-On that
\* no Note-Off has followed.
C6_StuckNoteFreedom ==
    [][last_call' = "disconnect_controller"
       => (playing_notes' = <<>> /\ sounding' = {})]_vars

\* C7: in every reachable state P holds exactly the output notes that sound because of the
\* bridge: those for which a Note-On was sent to the virtual output and no Note-Off since.
C7_RegistryIsSounding ==
    DictKeys(playing_notes) = {p[2] : p \in sounding}

\* the entries of P whose pad the forward table m maps to another note, or to none
Changed(m, e) == e.coord \notin DOMAIN m \/ m[e.coord] # e.note

\* C8: with the virtual output open, stop_notes_with_changed_mapping(F') sends, for every
\* entry P[n] = ((lx,ly), c) with F'[(lx,ly)] absent or different from n, exactly one
\* Note-Off for n on channel c and removes the entry; every entry with F'[(lx,ly)] = n is
\* kept unchanged with no Note-Off for it; nothing else is sent.
C8_SwapDiff ==
    [][\A m \in SwapTables :
        (midi_out /\ stop_notes_with_changed_mapping(m))
        => /\ \A i \in 1..Len(playing_notes) :
                LET e == playing_notes[i] IN
                IF Changed(m, e)
                    THEN /\ Count(sent', <<NOTE_OFF + e.channel, e.note, 0>>) = 1
                         /\ e.note \notin DictKeys(playing_notes')
                    ELSE /\ e.note \in DictKeys(playing_notes')
                         /\ DictGet(playing_notes', e.note) = e
                         /\ \A j \in 1..Len(sent') : sent'[j][2] # e.note
           /\ Len(sent') = Cardinality({i \in 1..Len(playing_notes) :
                                           Changed(m, playing_notes[i])})
           /\ DictKeys(playing_notes') \subseteq DictKeys(playing_notes)]_vars

\* a diff stopped one note, on channel 1, and kept another
C8_Witness ==
    /\ last_call = "stop_notes_with_changed_mapping"
    /\ Len(sent) = 1
    /\ sent[1][1] = NOTE_OFF + 1
    /\ Len(playing_notes) = 1

\* C9: layout-swap idempotence: a swap that installs the tables the previous swap
\* installed, with nothing done in between, sends no Note-Off and leaves P unchanged.
C9_SwapIdempotent ==
    [][last_call' = "reinstall"
       => (sent' = <<>> /\ playing_notes' = playing_notes)]_vars

\* the same tables were installed twice in a row while a note was held
C9_Witness == last_call = "reinstall" /\ playing_notes # <<>> /\ midi_out

\* C10: whenever the coordinator has installed a new forward table, every playing note
\* whose pad the new table maps differently has had its Note-Off sent and its entry
\* removed from P.
C10_RebuildStopsChangedNotes ==
    [][(/\ last_call' \in {"app_connect_to_controller", "update_layout_config",
                           "apply_transformation", "handle_scale_update"}
        /\ midi_out
        /\ note_mapping' # note_mapping)
       => \A i \in 1..Len(playing_notes) :
              LET e == playing_notes[i] IN
              Changed(note_mapping', e)
              => /\ e.note \notin DictKeys(playing_notes')
                 /\ Count(sent', <<NOTE_OFF + e.channel, e.note, 0>>) = 1]_vars

\* the tables of the handler as constructed, and every installation
InstalledTriples ==
    {<<inst.use_channel, inst.reverse, inst.mapping>> : inst \in Installations}
    \cup {<<FALSE, <<>>, <<>> >>}

\* C11: F and R are installed atomically as a pair: under any interleaving of
\* update_note_mapping with the hot thread, no note message is remapped with the reverse
\* table, or the use_channel_for_lookup flag, of one installation and the forward table of
\* another.
C11_TablesInstalledAsPair ==
    [][(hot_thread.pc = "send" /\ last_call' = "remapped")
       => <<hot_thread.use_channel, hot_thread.reverse, hot_thread.forward>>
              \in InstalledTriples]_vars

\* the pads a reverse table holds
PadsOf(reverse) == {reverse[k] : k \in DOMAIN reverse}

\* C12: end-to-end remap after a coordinator rebuild: for every pad (lx,ly) that the
\* rebuild places in R and F, a Note-On from the controller carrying the pad's controller
\* note lx + 16*ly is forwarded by the hot thread as a Note-On for F[(lx,ly)] on the same
\* channel with the same velocity, and P records it; it is not dropped.
C12_RebuiltTablesRemap ==
    [][\A pad \in PadsOf(reverse_mapping) \cap DOMAIN note_mapping :
        (/\ HotStep
         /\ midi_out
         /\ Len(Head(message_queue)) = 3
         /\ Head(message_queue)[1] \in {NOTE_ON + c : c \in Channels}
         /\ Head(message_queue)[3] > 0
         /\ Head(message_queue)[2] = pad[1] + 16 * pad[2])
        => /\ sent' = << <<Head(message_queue)[1], note_mapping[pad],
                           Head(message_queue)[3]>> >>
           /\ note_mapping[pad] \in DictKeys(playing_notes')
           /\ DictGet(playing_notes', note_mapping[pad]).coord = pad
           /\ DictGet(playing_notes', note_mapping[pad]).channel
                  = Head(message_queue)[1] % 16]_vars

\* C13: if a note is held on a pad when a layout swap changes the pad's output note, so
\* that the swap emits the Note-Off of the old output note and removes it from P, then the
\* next physical Note-Off from the controller for that pad is dropped: nothing is sent to
\* the virtual output for it.
C13_ReleaseAfterSwapDropped ==
    [][\A pad \in swap_stopped :
        (/\ HotStep
         /\ Head(message_queue) = PadMessage(LinnStrument, NOTE_OFF, pad, 64))
        => sent' = <<>>]_vars

(***************************************************************************)
(* The claims about the programming driver.  A step of the driver is a     *)
(* step that changes its position or its locals; in ACK mode the driver is *)
(* inside send_with_ack.                                                   *)
(***************************************************************************)
AckMode == {"ack_check", "ack_drain", "ack_send", "ack_wait"}

DriverStep == driver' # driver

\* the status byte of the response is the one the device's table maps to NEXT
MapsToNext(response) == Len(response) > 5 /\ response[6] = 1

C15_BusyRetriesCappedAtTen ==
    [][(driver.pc = "ack_drain" /\ DriverStep /\ driver.retries - 1 < 10)
       => (driver'.pc = "ack_send" /\ driver'.i = driver.i)]_vars

\* C16: in ACK mode a timeout, a response whose status byte is not in the response table,
\* a response too short to contain the status position, and an ABORT response each make
\* send_with_ack return failure, and the ACK-mode sender sends no later SysEx of the
\* stream after that failure.
C16_FailureStopsAckSender ==
    [][/\ (/\ driver.pc = "ack_wait"
           /\ DriverStep
           /\ \/ ack_response_queue = <<>>
              \/ Len(Head(ack_response_queue)) <= 5
              \/ Head(ack_response_queue)[6] \notin {0, 1, 2}
              \/ Head(ack_response_queue)[6] = 0)
          => /\ driver'.pc = "delay_check"
             /\ driver'.fallback
             /\ driver'.failed_at = driver.i
             /\ controller_sent' = <<>>
       /\ (driver.pc # "idle" /\ driver.fallback) => driver'.pc \notin AckMode]_vars

\* the second SysEx of a stream was answered with ABORT after the first was acknowledged
C16_Witness ==
    /\ last_call = "ack_failed_nack"
    /\ driver.pc = "delay_check"
    /\ driver.failed_at = 2

\* the driver is at a cancellation check of a tagged stream and the counter has moved on
CancelSeen ==
    /\ driver.pc \in {"ack_check", "delay_check"}
    /\ driver.i <= Len(driver.messages)
    /\ driver.generation # -1
    /\ color_send_generation # driver.generation

\* C17: cancellation is not failure: if G is bumped while a stream tagged with the older
\* value is running, in ACK mode or in delay mode, the stream sends no message that it had
\* not already started sending, returns, and reports no failure: no failure result, no
\* warning and no fallback.
C17_CancellationIsNotFailure ==
    [][(CancelSeen /\ DriverStep)
       => (controller_sent' = <<>> /\ driver'.pc = "idle")]_vars

\* C18: the ACK driver consults G also while it waits for a response and between BUSY
\* retries: once G has advanced past the stream's tag, the driver performs no further
\* send, a re-send of the current message included, whatever the responder answers.
C18_GenerationConsultedWhileWaiting ==
    [][(/\ driver.pc = "ack_wait"
        /\ driver.generation # -1
        /\ color_send_generation # driver.generation
        /\ DriverStep)
       => (driver'.pc \notin {"ack_drain", "ack_send"} /\ controller_sent' = <<>>)]_vars

\* C19: the fallback covers only the remainder: when ACK-mode sending fails at message k
\* of a stream, the delay-based fallback does not send again the messages before k, which
\* were acknowledged with NEXT.
C19_FallbackCoversRemainder ==
    [][(/\ driver.pc = "delay_check"
        /\ driver.fallback
        /\ DriverStep
        /\ controller_sent' # <<>>)
       => driver.i >= driver.failed_at]_vars

\* C20: the generation counter G is monotonically increasing: cancel_color_send is the
\* only operation that changes it, each call increases it by exactly 1 and returns the
\* new value, and under concurrent callers no two calls return the same value (each
\* returned value is above every value returned before).
C20_GenerationMonotonic ==
    [][/\ color_send_generation' # color_send_generation
          => /\ color_send_generation' = color_send_generation + 1
             /\ \E c \in Callers : canceller[c].pc = "loaded" /\ canceller'[c].pc = "stored"
       /\ \A c \in Callers :
            (canceller[c].pc = "stored" /\ canceller'[c].pc = "idle")
            => /\ canceller'[c].result = color_send_generation
               /\ canceller'[c].result = canceller[c].loaded + 1
               /\ \A d \in Callers : canceller[d].result < canceller'[c].result]_vars

\* two callers have each returned from a call, with different values
C20_Witness ==
    /\ canceller[1].pc = "idle"
    /\ canceller[2].pc = "idle"
    /\ canceller[1].result = 1
    /\ canceller[2].result = 2

(***************************************************************************)
(* The claims about two programming streams.  The thread that runs is      *)
(* driver; a step of it changes driver and leaves other_driver alone.      *)
(***************************************************************************)
\* the other stream carries a newer tag than the running one and has sent a message
NewerStreamSending ==
    /\ driver.pc # "idle"
    /\ other_driver.pc # "idle"
    /\ driver.generation < other_driver.generation
    /\ \/ other_driver.pc = "ack_wait"
       \/ other_driver.i > 1
       \/ other_driver.retries > 0

\* C21: programming streams never run concurrently with each other: once a second
\* invocation has bumped G and started sending, no message of a stream tagged with an older
\* generation is sent to the controller, and the older stream does not disturb the newer
\* one's ACK wait: it neither clears waiting_for_ack nor drains the ACK queue while the
\* newer stream is awaiting its response.
C21_StreamsNeverConcurrent ==
    [][(NewerStreamSending /\ driver' # driver /\ other_driver' = other_driver)
       => /\ controller_sent' = <<>>
          /\ other_driver.pc = "ack_wait"
                 => /\ waiting_for_ack' = waiting_for_ack
                    /\ ack_response_queue' = ack_response_queue]_vars

\* C22: ACK driver liveness: under a responder that answers every SysEx with a NEXT status
\* before the timeout, and with G not bumped, a stream of n SysEx messages eventually
\* completes with success, every message having been sent exactly once: no retry, no
\* timeout, no fallback; each wait ends with the driver moving to the next message, and
\* the stream completes past its last message.
C22_AckDriverLiveness ==
    /\ (driver.pc \in AckMode) ~> (last_call = "ack_completed")
    /\ [][(driver.pc \in AckMode /\ DriverStep)
          => /\ driver'.pc \in AckMode \cup {"idle"}
             /\ driver'.pc \in AckMode
                    => (driver'.retries = 0 /\ driver'.i \in {driver.i, driver.i + 1})
             /\ driver.pc = "ack_wait"
                    => (driver'.i = driver.i + 1 /\ controller_sent' = <<>>)
             /\ driver.pc # "ack_wait" /\ driver'.pc \in AckMode
                    => driver'.i = driver.i
             /\ controller_sent' # <<>>
                    => /\ driver.pc = "ack_send"
                       /\ controller_sent' = <<driver.messages[driver.i]>>
             /\ driver'.pc = "idle"
                    => /\ last_call' = "ack_completed"
                       /\ driver.i = Len(driver.messages) + 1]_vars

\* a stream of three SysEx messages has completed
C22_Witness ==
    /\ last_call = "ack_completed"
    /\ controller_out
    /\ driver.pc = "idle"

\* C23: MIDI parser round-trip: for any byte stream that is a concatenation of well-formed
\* messages m1..mk (terminated SysEx F0..F7, 3-byte channel messages, 2-byte Program-Change
\* and Channel-Pressure, 2-byte F1/F3, 3-byte F2, 1-byte F4..F6 and F8..FF),
\* _parse_midi_messages returns exactly [m1,..,mk] in order, so re-emitting the parsed
\* messages yields the identical bytes.
C23_ParserRoundTrip ==
    call.op = "_parse_midi_messages"
    => /\ returned = call.messages
       /\ Emit(returned) = call.data

\* a SysEx, a Program-Change and a real-time byte in one stream, parsed into three
C23_Witness ==
    /\ call.op = "_parse_midi_messages"
    /\ call.data = <<240, 1, 247, 192, 5, 248>>
    /\ Len(returned) = 3


\* a step in which the dispatcher delivered a message to its handler
OscStep ==
    /\ call'.op \in OscAddresses
    /\ last_call' = Handler(call'.op)

\* C24: the presence of the peer is absent at first; an evaluation of the monitor makes
\* it absent when more than 2 s have passed since the last refresh and present otherwise,
\* and nothing else changes it; it is present only after a recognized message was
\* received; the coordinator is told of every change, once, with the new state, and so
\* never twice in a row of the same state.
C24_PresenceStateMachine ==
    /\ ~osc_connected /\ notified = <<>>
    /\ [][IF last_call' = "monitor_connection"
          THEN /\ osc_connected' = ~(clock - last_ack_time > 2)
               /\ notified' = IF osc_connected' # osc_connected
                              THEN Append(notified, osc_connected')
                              ELSE notified
          ELSE /\ osc_connected' = osc_connected
               /\ notified' = notified]_vars
    /\ [](osc_connected => last_ack_time > 0)
    /\ [][last_ack_time' # last_ack_time
          => OscStep /\ call'.op \in DOMAIN Handlers]_vars
    /\ [](\A k \in 1..(Len(notified) - 1) : notified[k] # notified[k + 1])

\* the monitor found the peer, and later found it gone
C24_Witness ==
    /\ last_call = "monitor_connection"
    /\ notified = <<TRUE, FALSE>>
    /\ ~osc_connected

\* C25: a message on one of the five recognized addresses sets the presence timestamp
\* to the time of its arrival; a message on another address leaves the timestamp as it
\* was; neither changes the presence state.
C25_RecognizedAddressesRefresh ==
    [][OscStep
       => /\ IF call'.op \in {"/pitchgrid/plugin/tuning", "/pitchgrid/heartbeat/ack",
                              "/pitchgrid/scale", "/pitchgrid/notes", "/pitchgrid/playing"}
             THEN last_ack_time' = clock
             ELSE last_ack_time' = last_ack_time
          /\ osc_connected' = osc_connected]_vars

\* a message on the address of the playing notes refreshed a timestamp that was older
C25_Witness ==
    /\ last_call = "_handle_playing_notes"
    /\ call.op = "/pitchgrid/playing"
    /\ last_ack_time = clock
    /\ clock > StartTime
    /\ osc_connected

\* C26: a message sets the tuning and rebuilds the tables exactly when it is on the
\* tuning address with seven arguments; every other message leaves the tuning and the
\* installed tables as they were.
C26_TuningOnlyForSevenArguments ==
    [][OscStep
       => IF call'.op = "/pitchgrid/plugin/tuning" /\ call'.nargs = 7
          THEN tuning_mode' = call'.mode
          ELSE UNCHANGED <<tuning_mode, note_mapping, reverse_mapping,
                           use_channel_for_lookup>>]_vars


\* C27: the position of the status byte is the manual override when the ACK
\* configuration has one; otherwise the position found in a response template, the
\* manufacturer identifier counting 3 and every other token 1; otherwise 5.
C27_OverrideTakesPrecedence ==
    call.op = "ControllerConfig"
    => LET config == call.config
           from_color == find_midi_response_type_position(config.SetPadColorResponse)
           from_note == find_midi_response_type_position(
                            config.SetPadNoteAndChannelResponse)
       IN  returned = << IF config.ResponsePosition # <<>> THEN config.ResponsePosition[1]
                         ELSE IF from_color # <<>> THEN from_color[1]
                         ELSE IF from_note # <<>> THEN from_note[1]
                         ELSE 5 >>


\* C28: the input queue is first in, first out.  A message the callback is given goes
\* to the end of the queue, or is dropped when the queue is full, the queue staying as
\* it was; the hot thread takes the message at the head and handles that one; no other
\* step changes the queue.
C28_InputQueueFifo ==
    [][/\ (last_call' = "midi_callback" /\ call'.op = "_midi_callback")
          => message_queue' = IF Len(message_queue) < queue_maxsize
                              THEN Append(message_queue, call'.message)
                              ELSE message_queue
       /\ (last_call' # "midi_callback" /\ message_queue' # message_queue)
          => /\ HotStep
             /\ last_call' = ProcessMessage(Head(message_queue)).branch
             /\ sent' = ProcessMessage(Head(message_queue)).out]_vars

\* the queue is full of two different messages, and a third has just been dropped
C28_Witness ==
    /\ last_call = "midi_callback"
    /\ Len(message_queue) = queue_maxsize
    /\ queue_maxsize > 1
    /\ message_queue[1] # message_queue[2]
    /\ call.message \notin {message_queue[k] : k \in 1..Len(message_queue)}


\* C29: a SysEx message the callback is given while the driver waits goes to the end of
\* the ACK queue and not to the input queue; one given while the driver does not wait
\* goes to neither queue; and no SysEx message is ever sent to the virtual output.
C29_SysExRouting ==
    /\ [][(last_call' = "midi_callback" /\ call'.op = "_midi_callback"
           /\ call'.message[1] = SYSEX)
          => /\ message_queue' = message_queue
             /\ ack_response_queue' = IF waiting_for_ack
                                      THEN Append(ack_response_queue, call'.message)
                                      ELSE ack_response_queue]_vars
    /\ [](\A k \in 1..Len(sent) : sent[k][1] # SYSEX)


\* the note of pad i of the call is a note of the controller: defined, and in 0..127
C30_Mapped(i) ==
    LET note == logical_coord_to_controller_note(call.desc, call.pads[i][1], call.pads[i][2])
    IN  call.desc.note_assign \notin {"None", "1/0"} /\ note >= 0 /\ note <= 127

\* the key of pad i of the call: its channel and its note
C30_Key(i) ==
    <<logical_coord_to_controller_channel(call.desc, call.pads[i][1], call.pads[i][2]),
      logical_coord_to_controller_note(call.desc, call.pads[i][1], call.pads[i][2])>>

\* the pads that are values of the table returned
C30_Values == {returned[k] : k \in DOMAIN returned}

\* C30 as claimed: the table built maps the channel and note of every pad whose note is
\* in 0..127 back to that pad, and no pad whose note is undefined or outside 0..127 is
\* a value of the table.
C30_ReverseRoundTrip ==
    call.op = "build_controller_note_mapping"
    => \A i \in 1..Len(call.pads) :
           IF C30_Mapped(i)
           THEN C30_Key(i) \in DOMAIN returned /\ returned[C30_Key(i)] = call.pads[i]
           ELSE call.pads[i] \notin C30_Values

\* C30 amended: the table built maps the channel and note of a pad whose note is in
\* 0..127 back to the last pad in the descriptor's order with that channel and note,
\* which is the pad itself when no later pad shares them; no pad whose note is undefined
\* or outside 0..127 is a value of the table, and the table has no other keys.
C30_ReverseRoundTripLastWins ==
    call.op = "build_controller_note_mapping"
    => /\ \A i \in 1..Len(call.pads) :
              IF C30_Mapped(i)
              THEN /\ C30_Key(i) \in DOMAIN returned
                   /\ \E j \in i..Len(call.pads) :
                          /\ C30_Mapped(j) /\ C30_Key(j) = C30_Key(i)
                          /\ \A l \in (j + 1)..Len(call.pads) :
                                 ~(C30_Mapped(l) /\ C30_Key(l) = C30_Key(i))
                          /\ returned[C30_Key(i)] = call.pads[j]
              ELSE call.pads[i] \notin C30_Values
       /\ DOMAIN returned = {C30_Key(i) : i \in {j \in 1..Len(call.pads) : C30_Mapped(j)}}

\* a table built from three pads: two of one channel and note, the later of which the
\* table holds, and one whose note is outside 0..127
C30_Witness ==
    /\ call.op = "build_controller_note_mapping"
    /\ Len(call.pads) = 3
    /\ \E i, j, l \in 1..3 :
           /\ i < j
           /\ C30_Mapped(i) /\ C30_Mapped(j) /\ C30_Key(i) = C30_Key(j)
           /\ returned[C30_Key(i)] = call.pads[j]
           /\ ~C30_Mapped(l)
           /\ call.desc.note_assign = "x + 127"


\* C31: when the coordinator has built the reverse table for a controller whose
\* descriptor has a noteAssign, the keys of the table are the pairs of channel and note
\* the descriptor assigns to its pads.
C31_NoteAssignWins ==
    \A desc \in Descriptors :
        (current_controller = desc.device_name /\ desc.note_assign # "None")
        => DOMAIN reverse_mapping =
               {<<logical_coord_to_controller_channel(desc, pad[1], pad[2]),
                  logical_coord_to_controller_note(desc, pad[1], pad[2])>> :
                    pad \in {q \in Pads :
                               InRange(logical_coord_to_controller_note(desc, q[1], q[2]))}}


\* C32: a start that cannot open the virtual output starts no thread: not the hot
\* thread, not the threads of the OSC session, not the discovery thread.  After a start
\* that opened it, whatever fails (the port of a controller not found, the responses of
\* a stream, a tuning frame, a full input queue, a send), the one hot thread stays alive
\* and running, and takes the next message whenever the queue holds one.
C32_StartupFailurePolicy ==
    /\ [][(last_call' = "app_start" /\ ~midi_out')
          => /\ ~running' /\ hot_alive' = 0
             /\ ~osc_running' /\ ~discovery_running' /\ alive' = {}]_vars
    /\ [][(last_call' = "app_start" /\ midi_out')
          => /\ running' /\ hot_alive' = 1
             /\ osc_running' /\ discovery_running' /\ alive' = Threads]_vars
    /\ [][(running /\ hot_alive = 1) => (running' /\ hot_alive' = 1)]_vars
    /\ []((running /\ message_queue # <<>>) => ENABLED ProcessingLoop)
    /\ [][last_call' \in {"processing_error", "handle_scale_update_error",
                          "ack_failed_timeout", "connect_to_controller"}
          => UNCHANGED <<midi_out, running, hot_alive>>]_vars

\* a send has just raised while no controller port is open: the hot thread is alive and
\* running, and can take the message that waits in the queue
C32_Witness ==
    /\ last_call = "processing_error"
    /\ ~controller_port
    /\ running /\ hot_alive = 1
    /\ message_queue # <<>>
    /\ ENABLED ProcessingLoop

\* C33: when a send to the virtual output raises, the handler closes the input and the
\* output port of the controller; the message is not sent again.
C33_PortClosedDuringSend ==
    [][last_call' = "processing_error"
       => /\ ~controller_port' /\ ~controller_out'
          /\ message_queue' = Tail(message_queue) /\ sent' = <<>>]_vars


\* the places in the list of the call of the ports whose names contain the substring
C34_Matching ==
    {i \in 1..Len(call.available_ports) :
        \E k \in 0..(Len(call.available_ports[i]) - Len(call.search_string)) :
            \A c \in 1..Len(call.search_string) :
                call.available_ports[i][k + c] = call.search_string[c]}

\* C34: find_best_matching_port returns none exactly when no port name contains the
\* substring; otherwise it returns a port whose name contains it, no longer than any
\* other such port, and the first of that length in the list.
C34_ShortestMatchWins ==
    call.op = "find_best_matching_port"
    => IF C34_Matching = {} THEN returned = <<>>
       ELSE \E i \in C34_Matching :
                /\ returned = <<call.available_ports[i]>>
                /\ \A j \in C34_Matching :
                       /\ Len(call.available_ports[i]) <= Len(call.available_ports[j])
                       /\ j < i => Len(call.available_ports[j]) > Len(call.available_ports[i])

\* two different ports of one length contain the substring, and the first is returned
C34_Witness ==
    /\ call.op = "find_best_matching_port"
    /\ call.search_string = <<"b">>
    /\ call.available_ports = << <<"a", "b">>, <<"b", "a">> >>
    /\ returned = << <<"a", "b">> >>


\* the driver is inside an attempt of _send_single_with_ack: the flag set, the message
\* about to be sent or its response awaited
InAttempt == driver.pc \in {"ack_send", "ack_wait"}

\* C35: the flag is set when a SysEx is sent in ACK mode; every attempt, however it ends,
\* leaves the flag cleared; so outside an attempt the flag is cleared, and a SysEx that
\* arrives then does not go to the ACK queue.
C35_FlagFollowsAttempt ==
    /\ [][last_call' = "ack_send"
          => /\ waiting_for_ack /\ waiting_for_ack'
             /\ controller_sent' = <<driver.messages[driver.i]>>]_vars
    /\ [][(InAttempt /\ ~InAttempt') => ~waiting_for_ack']_vars
    /\ [](~InAttempt => ~waiting_for_ack)
    /\ [][(last_call' = "midi_callback" /\ ~InAttempt)
          => ack_response_queue' = ack_response_queue]_vars

\* an attempt has just ended in a retry, and the flag is cleared
C35_Witness ==
    /\ last_call = "ack_busy"
    /\ driver.pc = "ack_drain"
    /\ ~waiting_for_ack

\* C36: when the driver sends a SysEx in ACK mode the ACK queue is empty, so that the
\* response it reads next, the head of the queue, was put there after the send and not
\* before it.
C36_ResponseFollowsSend ==
    [][last_call' = "ack_send" => ack_response_queue = <<>>]_vars


\* C37: when a stream has completed in ACK mode, the BUSY retries in the stats the
\* driver reports are as many as the delay responses it read.
C37_RetriesCounted ==
    last_call = "ack_completed" => stats.busy = delays


\* C38: within one message the test of a table and the read that follows it see the same
\* table: the read after a test that found the key finds it too, in the reverse table and
\* in the forward table, so that no message that passed a test is lost at the read.
C38_TestAndReadSeeOneTable ==
    [][/\ (hot_thread.pc = "get_reverse" /\ hot_thread'.pc # "get_reverse")
          => /\ hot_thread.key \in DOMAIN reverse_mapping
             /\ last_call' # "error"
       /\ (hot_thread.pc = "get_forward" /\ hot_thread'.pc # "get_forward")
          => /\ hot_thread.logical_coord \in DOMAIN note_mapping
             /\ last_call' # "error"]_vars


\* C39: at most one thread runs _processing_loop at any time, however start and stop
\* are called and whether or not the join of a stop returned in time.
C39_OneHotThread == hot_alive <= 1


\* the ports the handler holds are released
Released == ~controller_port /\ ~controller_out /\ ~midi_out

\* every thread has ended
Terminated == hot_alive = 0 /\ alive = {}

\* C40: a stop of the coordinator clears every stop flag and releases the controller ports
\* and the virtual port, and after it the hot thread, the heartbeat thread, the monitor
\* thread and the discovery thread all end, with the ports still released.
C40_ShutdownTerminates ==
    /\ [][last_call' = "app_stop"
            => ~running' /\ ~osc_running' /\ ~discovery_running' /\ Released']_vars
    /\ (last_call = "app_stop") ~> (Terminated /\ Released)

\* the coordinator was stopped with messages of the controller still queued, a join did
\* not return in time, and the threads have ended since
C40_Witness ==
    /\ last_call \in {"loop_exit", "thread_exit"}
    /\ message_queue # <<>>
    /\ ~running /\ ~osc_running /\ ~discovery_running
    /\ Terminated
    /\ Released

====
